---- MODULE Spec2Model ----
(***************************************************************************)
(* A model of the NetBox import wizard (src/netbox_wizard).                *)
(*                                                                         *)
(* The module holds several specifications over one set of variables, one  *)
(* per part of the program:                                                *)
(*   SpecThread  one DeviceImportThread run over a given request list,     *)
(*               with the Import tab's Cancel handler;                     *)
(*   SpecImport  the Import tab of NetBoxImportWizard, the device table    *)
(*               and the import threads it starts;                         *)
(*   SpecConfig  ConfigManager, its config file and its credential file;   *)
(*   SpecMatch   DeviceDiscoveryModel.find_potential_matches, in its       *)
(*               netbox_api.py and its nbwiz2.py variant;                   *)
(*   SpecFetch   NetBoxDataThread runs over the NetBoxAPI cache, with the  *)
(*               wizard's fetch and refresh handlers;                      *)
(*   SpecPlatform  DeviceTableWidget._find_matching_platform;               *)
(*   SpecPopulate  the chunked population of the device table;             *)
(*   SpecAutoMap   auto_map_all_platforms over a populated table;          *)
(*   SpecTopology  TopologyLoadThread._validate_topology_data.             *)
(* Each specification leaves the variables of the other parts unchanged.   *)
(***************************************************************************)
EXTENDS Integers, Sequences, FiniteSets, TLC

VARIABLES
    \* ---- device table and Import tab (ui_components.py, nbwize_main.py)
    table,              \* DeviceTableWidget rows: checkbox and combo boxes
    import_btn,         \* import_btn.isEnabled()
    cancel_import_btn,  \* cancel_import_btn.isEnabled()
    devices_to_import,  \* NetBoxImportWizard.devices_to_import
    import_thread,      \* NetBoxImportWizard.import_thread (0: attribute not set)
    nStarted,           \* DeviceImportThread objects constructed so far
    nEdits,             \* table edits the operator made so far
    \* ---- import threads (threading_classes.py) and the backend
    threads,            \* thread id -> state of a DeviceImportThread
    created,            \* payloads the backend's create-call accepted
    \* ---- ConfigManager (config_manager.py) and its two files
    cm_unlocked,        \* credentials.is_unlocked()
    cm_connections,     \* ConfigManager._connections
    cm_preferences,     \* ConfigManager._preferences
    config_file,        \* config.json
    credentials_file,   \* credentials.yaml: the stored (encrypted) entry list
    cm_ret,             \* what the last ConfigManager call returned: <<value>>, <<>> for None
    cm_ops,             \* ConfigManager calls made so far
    cm_instance,        \* ConfigManager instances constructed so far
    \* ---- DeviceDiscoveryModel (netbox_api.py, nbwiz2.py)
    discovered_devices, \* DeviceDiscoveryModel.discovered_devices
    existing_inventory, \* the existing-device list handed to the matcher
    dm_matches,         \* what find_potential_matches returned
    dm_matcher,         \* which find_potential_matches ran: "none" before
    \* ---- NetBoxAPI and NetBoxDataThread (netbox_api.py, threading_classes.py)
    nb_connected,       \* NetBoxImportWizard.netbox_api is set
    nb_cache,           \* NetBoxAPI._cache: key -> "list" or "empty"
    fetch_threads,      \* thread id -> state of a NetBoxDataThread
    netbox_data,        \* NetBoxImportWizard.netbox_data: <<dict>>, <<>> before
    nFetch,             \* NetBoxDataThread objects constructed so far
    \* ---- platform auto-matching (ui_components.py)
    pm_discovered,      \* the discovered platform string handed to the matcher
    pm_platforms,       \* the inventory platform list handed to the matcher
    pm_result,          \* index of the platform returned, 0 for None
    pm_called,          \* _find_matching_platform has returned
    \* ---- DeviceTableWidget population and auto-mapping (ui_components.py)
    devices_to_populate,  \* DeviceTableWidget.devices_to_populate
    netbox_data_cache,    \* the platforms of DeviceTableWidget.netbox_data_cache
    current_chunk_index,  \* DeviceTableWidget.current_chunk_index
    timer_active,         \* population_timer.isActive()
    row_count,            \* rowCount()
    tw_rows,              \* row -> cells and cell widgets of a populated row
    tw_signals,           \* signals the table emitted since the last populate call
    tw_populates,         \* populate_devices_with_netbox_data calls so far
    tw_devices,           \* the devices argument of the last of these calls
    tw_edited,            \* the rows the operator changed since the last of them
    mapped_count,         \* what the last auto_map_all_platforms run reported
    nPicks,               \* platform picker changes the operator made so far
    \* ---- TopologyLoadThread (threading_classes.py)
    raw_data,           \* the decoded topology file, when it holds an object
    validated_devices,  \* what _validate_topology_data returned
    tp_validated,       \* _validate_topology_data has returned
    tp_file,            \* what the topology file holds; "none": no thread started
    tp_signals,         \* load_complete / load_error emissions of the thread
    tp_done,            \* TopologyLoadThread.run has ended
    tp_emitted,         \* every emission of the run, in program order
    \* ---- NetBoxImportWizard: startup and the Connection & File tab (nbwize_main.py)
    wz_phase,           \* "created" before initialize_config, then "running"; "crashed"
    wz_init_result,     \* what initialize_config returned: <<value>>, <<>> before
    connection_combo,   \* the item texts of the saved-connections picker
    window_size,        \* <<width(), height()>>
    file_path_input,    \* file_path_input.text()
    wz_form,            \* the URL, token, name and toggle widgets of the tab
    load_file_btn,      \* load_file_btn.isEnabled()
    test_connection_btn,  \* test_connection_btn.isEnabled()
    connection_thread,  \* NetBoxImportWizard.connection_thread
    topology_thread,    \* NetBoxImportWizard.topology_thread
    wz_results,         \* the success flags on_connection_result has handled
    wz_loads,           \* topology loads on_topology_loaded has handled
    wz_unhandled,       \* exceptions that left a slot unhandled
    wz_message,         \* title of the last message box shown
    \* ---- ImportReportGenerator (import_report.py)
    import_results,     \* ImportReportGenerator.import_results
    topology_file,      \* ImportReportGenerator.topology_file
    rp_message,         \* the message box generate_csv_report showed last
    rp_file,            \* the rows of the report file: <<rows>>, <<>> if not written
    rp_ret,             \* what generate_csv_report returned: <<value>>, <<>> before
    \* ---- export_device_table_to_csv (export_utils.py)
    ex_file,            \* the rows of the export file: <<rows>>, <<>> if not written
    ex_ret,             \* what the export returned: <<value>>, <<>> before
    ex_message,         \* title of the message box the export showed
    \* ---- NetBoxImportWizard: the backend (URL) behind the wrapper, the data and the ids
    bk_url_input,         \* the URL in the form
    bk_connection_thread, \* the URL the running connection test was given: <<url>>
    bk_netbox_api,        \* the URL of the wrapper self.netbox_api, None without one
    bk_data_threads,      \* the URLs of the wrappers of the running fetch threads
    bk_netbox_data,       \* the URL self.netbox_data was fetched from
    bk_table,             \* the URL the ids in the pickers of the rows were fetched from
    bk_import_threads     \* per started import thread: whose ids, whose wrapper

importVars == <<table, import_btn, cancel_import_btn, devices_to_import,
                import_thread, nStarted, nEdits, threads, created>>

configVars == <<cm_unlocked, cm_connections, cm_preferences, config_file,
                credentials_file, cm_ret, cm_ops, cm_instance>>

matchVars == <<discovered_devices, existing_inventory, dm_matches, dm_matcher>>

fetchVars == <<nb_connected, nb_cache, fetch_threads, netbox_data, nFetch>>

platformVars == <<pm_discovered, pm_platforms, pm_result, pm_called>>

tableVars == <<devices_to_populate, netbox_data_cache, current_chunk_index,
               timer_active, row_count, tw_rows, tw_signals, tw_populates,
               tw_devices, tw_edited, mapped_count, nPicks>>

topologyVars == <<raw_data, validated_devices, tp_validated, tp_file, tp_signals,
                  tp_done, tp_emitted>>

wizardVars == <<wz_phase, wz_init_result, connection_combo, window_size,
                file_path_input, wz_form, load_file_btn, test_connection_btn,
                connection_thread, topology_thread, wz_results, wz_loads,
                wz_unhandled, wz_message>>

reportVars == <<import_results, topology_file, rp_message, rp_file, rp_ret>>

exportVars == <<ex_file, ex_ret, ex_message>>

backendVars == <<bk_url_input, bk_connection_thread, bk_netbox_api, bk_data_threads,
                 bk_netbox_data, bk_table, bk_import_threads>>

vars == <<importVars, configVars, matchVars, fetchVars, platformVars, tableVars,
          topologyVars, wizardVars, reportVars, exportVars, backendVars>>

\* what the actions of one part leave unchanged
notImportVars == <<configVars, matchVars, fetchVars, platformVars, tableVars,
                   topologyVars,
                   wizardVars, reportVars, exportVars, backendVars>>

notConfigVars == <<importVars, matchVars, fetchVars, platformVars, tableVars,
                   topologyVars,
                   wizardVars, reportVars, exportVars, backendVars>>

notMatchVars == <<importVars, configVars, fetchVars, platformVars, tableVars,
                  topologyVars,
                   wizardVars, reportVars, exportVars, backendVars>>

notFetchVars == <<importVars, configVars, matchVars, platformVars, tableVars,
                  topologyVars,
                   wizardVars, reportVars, exportVars, backendVars>>

notPlatformVars == <<importVars, configVars, matchVars, fetchVars, tableVars,
                     topologyVars,
                   wizardVars, reportVars, exportVars, backendVars>>

notTableVars == <<importVars, configVars, matchVars, fetchVars, platformVars,
                  topologyVars,
                   wizardVars, reportVars, exportVars, backendVars>>

notWizardVars == <<importVars, platformVars, tableVars, topologyVars,
                   reportVars, exportVars, backendVars>>

notReportVars == <<importVars, configVars, matchVars, fetchVars, platformVars,
                   tableVars, topologyVars, wizardVars, exportVars, backendVars>>

notExportVars == <<importVars, configVars, matchVars, fetchVars, platformVars,
                   tableVars, topologyVars, wizardVars, reportVars, backendVars>>

notBackendVars == <<importVars, configVars, matchVars, fetchVars, platformVars,
                    tableVars, topologyVars, wizardVars, reportVars, exportVars>>

notTopologyVars == <<importVars, configVars, matchVars, fetchVars, platformVars,
                     tableVars,
                   wizardVars, reportVars, exportVars, backendVars>>

----------------------------------------------------------------------------
(* Bounds *)

\* rows of the populated device table
NumRows == 2
\* DeviceImportThread objects one behaviour of SpecImport may construct
MaxThreads == 2
\* longest request list handed to the thread in SpecThread
MaxDevices == 3
\* table edits (checkbox or combo changes) the operator makes in one behaviour
MaxEdits == 4
\* ConfigManager calls in one behaviour
MaxOps == 3
\* ConfigManager instances constructed over the same files in one behaviour
MaxInstances == 2
\* main devices of the loaded topology
MaxDiscovered == 2
\* devices of the existing-device list
MaxInventory == 2
\* NetBoxDataThread objects constructed in one behaviour
MaxFetch == 2
\* platforms of the inventory platform list
MaxPlatforms == 2
\* top-level devices of a topology the table is populated from
MaxTopDevices == 101
\* top-level devices of a topology whose rows are auto-mapped
MaxAutoMapDevices == 2
\* populate_devices_with_netbox_data calls
MaxPopulates == 2
\* platform picker changes by the operator
MaxPicks == 2

\* saved connections a configuration grows to
MaxSaved == 3
\* entries of a connections list of the topology file
MaxConnections == 2
\* topology loads the wizard handles
MaxLoads == 2
\* import results handed to the report generator
MaxResults == 3

(* Program constants *)

\* currentData() of a combo box left on its "-- Select ... --" item is None;
\* None is written 0, backend ids are positive
NoneId == 0

Ids == {NoneId, 1}

----------------------------------------------------------------------------
(* DeviceTableWidget *)

Rows == [checked : BOOLEAN, platform : Ids, site : Ids, role : Ids, type : Ids]

\* one entry of the list get_selected_devices_for_import builds; the device
\* name of row r is written r (_prepare_device_list keeps names unique)
ImportRequest(r, row) ==
    [name |-> r, platform_id |-> row.platform, site_id |-> row.site,
     role_id |-> row.role, type_id |-> row.type]

RECURSIVE SelectedFrom(_, _)
SelectedFrom(tbl, r) ==
    IF r > Len(tbl) THEN <<>>
    ELSE (IF tbl[r].checked THEN <<ImportRequest(r, tbl[r])>> ELSE <<>>)
         \o SelectedFrom(tbl, r + 1)

get_selected_devices_for_import(tbl) == SelectedFrom(tbl, 1)

----------------------------------------------------------------------------
(* NetBoxImportWizard.validate_import *)

\* the checks of one device without the device type check
DeviceErrorsWithoutType(device) ==
    (IF device.site_id = NoneId THEN <<<<device.name, "Site not selected">>>> ELSE <<>>)
    \o (IF device.role_id = NoneId THEN <<<<device.name, "Role not selected">>>> ELSE <<>>)

\* the messages of one device, in the order the code appends them
DeviceErrors(device) ==
    (IF device.site_id = NoneId THEN <<<<device.name, "Site not selected">>>> ELSE <<>>)
    \o (IF device.role_id = NoneId THEN <<<<device.name, "Role not selected">>>> ELSE <<>>)
    \o (IF device.type_id = NoneId
        THEN <<<<device.name, "Device type not selected">>>> ELSE <<>>)

RECURSIVE validation_errors(_)
validation_errors(devices) ==
    IF devices = <<>> THEN <<>>
    ELSE DeviceErrors(Head(devices)) \o validation_errors(Tail(devices))

\* validate_import without its per-device checks
validate_result_ignoring_errors(devices) == devices # <<>>

\* the value validate_import returns
validate_result(devices) ==
    IF validation_errors(devices) # <<>> THEN FALSE
    ELSE IF devices = <<>> THEN FALSE
    ELSE TRUE

\* the warning box validate_import shows: its title and the error lines of
\* its text; the title "" stands for no box
validate_warning(devices) ==
    IF validation_errors(devices) # <<>>
    THEN [title |-> "Validation Errors", text |-> validation_errors(devices)]
    ELSE IF devices = <<>>
    THEN [title |-> "No Devices Selected", text |-> <<>>]
    ELSE [title |-> "", text |-> <<>>]

----------------------------------------------------------------------------
(* DeviceImportThread *)

\* DeviceImportThread.__init__ and the locals of run before its first iteration
NewThread(import_data) ==
    [import_data |-> import_data,
     i           |-> 1,            \* enumerate index + 1 of the next iteration
     pc          |-> "loop",       \* loop | creating | done
     successful  |-> 0,
     failed      |-> 0,
     interrupted |-> FALSE,        \* isInterruptionRequested()
     progress    |-> <<>>,         \* import_progress emissions
     events      |-> <<>>,         \* device_created emissions
     complete    |-> <<>>,         \* import_complete emissions
     calls       |-> <<>>,         \* create-calls begun, with their outcome
     emitted     |-> <<>>]         \* signals and create-calls of run, in program order

\* the payload without the platform test of run
DevicePayloadWithoutPlatform(device_data) ==
    [name |-> device_data.name, site |-> device_data.site_id,
     device_role |-> device_data.role_id, device_type |-> device_data.type_id,
     status |-> "active"]

\* the payload run builds for one request
DevicePayload(device_data) ==
    IF device_data.platform_id # NoneId
    THEN [name |-> device_data.name, site |-> device_data.site_id,
          device_role |-> device_data.role_id, device_type |-> device_data.type_id,
          status |-> "active", platform |-> device_data.platform_id]
    ELSE [name |-> device_data.name, site |-> device_data.site_id,
          device_role |-> device_data.role_id, device_type |-> device_data.type_id,
          status |-> "active"]

isRunning(t) == t \in DOMAIN threads /\ threads[t].pc # "done"

\* the loop head without its interruption check
BreakLoopIgnoringInterruption(th) == th.i > Len(th.import_data)

\* the loop head: the list is exhausted, or the interruption check breaks
BreakLoop(th) == th.i > Len(th.import_data) \/ th.interrupted

\* import_progress.emit with the list position instead of i + 1
progress_signal_zero_based(th) ==
    <<th.import_data[th.i].name, th.i - 1, Len(th.import_data)>>

\* import_progress.emit(device_name, i + 1, total)
progress_signal(th) ==
    <<th.import_data[th.i].name, th.i, Len(th.import_data)>>

\* One loop iteration up to the create-call: the interruption check, the
\* progress signal and the payload; the call is then in flight.
ThreadIterate(t) ==
    /\ t \in DOMAIN threads
    /\ threads[t].pc = "loop"
    /\ ~BreakLoop(threads[t])
    /\ LET th == threads[t]
           device_data == th.import_data[th.i]
       IN threads' = [threads EXCEPT ![t] =
               [th EXCEPT !.pc = "creating",
                          !.progress = Append(@, progress_signal(th)),
                          !.emitted = @ \o << <<"import_progress", progress_signal(th)>>,
                                              <<"create_device", DevicePayload(device_data)>> >>]]
    /\ UNCHANGED <<table, import_btn, cancel_import_btn, devices_to_import,
                   import_thread, nStarted, nEdits, created>>
    /\ UNCHANGED notImportVars

\* the except branch without its increment
FailedAfterLosingCount(th) == th.failed

\* the except branch: failed += 1
FailedAfter(th) == th.failed + 1

\* The create-call returns or raises; run counts it, emits device_created and
\* sleeps 100 ms before the next iteration.
ThreadCreate(t) ==
    /\ t \in DOMAIN threads
    /\ threads[t].pc = "creating"
    /\ LET th == threads[t]
           device_data == th.import_data[th.i]
       IN \E outcome \in {"returned", "raised"} :
            /\ created' = IF outcome = "returned"
                          THEN created \cup {DevicePayload(device_data)}
                          ELSE created
            /\ threads' = [threads EXCEPT ![t] =
                 [th EXCEPT
                    !.successful = IF outcome = "returned" THEN @ + 1 ELSE @,
                    !.failed = IF outcome = "raised" THEN FailedAfter(th) ELSE @,
                    !.events = Append(@, <<device_data.name, outcome = "returned">>),
                    !.calls = Append(@, <<device_data.name, outcome>>),
                    !.emitted = Append(@, <<"device_created",
                                            <<device_data.name, outcome = "returned">> >>),
                    !.i = @ + 1,
                    !.pc = "loop"]]
    /\ UNCHANGED <<table, import_btn, cancel_import_btn, devices_to_import,
                   import_thread, nStarted, nEdits>>
    /\ UNCHANGED notImportVars

\* The loop ends (list exhausted, or break on interruption): run emits
\* import_complete and returns.
ThreadFinish(t) ==
    /\ t \in DOMAIN threads
    /\ threads[t].pc = "loop"
    /\ BreakLoop(threads[t])
    /\ threads' = [threads EXCEPT ![t] =
            [@ EXCEPT !.pc = "done",
                      !.complete = Append(@, <<threads[t].successful, threads[t].failed>>),
                      !.emitted = Append(@, <<"import_complete",
                                              <<threads[t].successful, threads[t].failed>> >>)]]
    /\ UNCHANGED <<table, import_btn, cancel_import_btn, devices_to_import,
                   import_thread, nStarted, nEdits, created>>
    /\ UNCHANGED notImportVars

----------------------------------------------------------------------------
(* NetBoxImportWizard: the Import tab *)

\* "Validate Configuration" clicked
ValidateImport ==
    LET devices == get_selected_devices_for_import(table)
    IN /\ IF validate_result(devices)
          THEN /\ import_btn' = TRUE
               /\ devices_to_import' = devices
          ELSE UNCHANGED <<import_btn, devices_to_import>>
       /\ UNCHANGED <<table, cancel_import_btn, import_thread, nStarted, nEdits,
                      threads, created>>
       /\ UNCHANGED notImportVars

\* "Start Import" clicked (the button is enabled)
StartImport ==
    /\ import_btn
    /\ nStarted < MaxThreads
    /\ LET devices == get_selected_devices_for_import(table)
           id == nStarted + 1
       IN IF validate_result(devices)
          THEN /\ devices_to_import' = devices
               /\ import_btn' = FALSE
               /\ cancel_import_btn' = TRUE
               /\ threads' = (id :> NewThread(devices)) @@ threads
               /\ import_thread' = id
               /\ nStarted' = id
          ELSE UNCHANGED <<devices_to_import, import_btn, cancel_import_btn,
                           threads, import_thread, nStarted>>
    /\ UNCHANGED <<table, created, nEdits>>
    /\ UNCHANGED notImportVars

\* "Cancel Import" clicked (the button is enabled)
CancelImport ==
    /\ cancel_import_btn
    /\ IF import_thread # 0 /\ isRunning(import_thread)
       THEN /\ threads' = [threads EXCEPT ![import_thread].interrupted = TRUE]
            /\ import_btn' = TRUE
            /\ cancel_import_btn' = FALSE
       ELSE UNCHANGED <<threads, import_btn, cancel_import_btn>>
    /\ UNCHANGED <<table, devices_to_import, import_thread, nStarted, nEdits, created>>
    /\ UNCHANGED notImportVars

\* The UI thread handles the queued import_complete signal of thread t; the
\* finished thread plays no further part and its record is dropped.
on_import_complete(t) ==
    /\ t \in DOMAIN threads
    /\ threads[t].pc = "done"
    /\ import_btn' = TRUE
    /\ cancel_import_btn' = FALSE
    /\ threads' = [u \in DOMAIN threads \ {t} |-> threads[u]]
    /\ UNCHANGED <<table, devices_to_import, import_thread, nStarted, nEdits, created>>
    /\ UNCHANGED notImportVars

\* the operator ticks or clears a row's import checkbox
ToggleCheck(r) ==
    /\ r \in 1..Len(table)
    /\ nEdits < MaxEdits
    /\ nEdits' = nEdits + 1
    /\ table' = [table EXCEPT ![r].checked = ~@]
    /\ UNCHANGED <<import_btn, cancel_import_btn, devices_to_import,
                   import_thread, nStarted, threads, created>>
    /\ UNCHANGED notImportVars

\* the operator picks an item in one of a row's combo boxes
SetCombo(r) ==
    /\ r \in 1..Len(table)
    /\ \E v \in Ids :
         \/ table' = [table EXCEPT ![r].site = v]
         \/ table' = [table EXCEPT ![r].role = v]
         \/ table' = [table EXCEPT ![r].type = v]
         \/ table' = [table EXCEPT ![r].platform = v]
    /\ nEdits < MaxEdits
    /\ nEdits' = nEdits + 1
    /\ UNCHANGED <<import_btn, cancel_import_btn, devices_to_import,
                   import_thread, nStarted, threads, created>>
    /\ UNCHANGED notImportVars

\* DeviceTableWidget.select_all_devices: "Select All" / "Select None"
select_all_devices(checked) ==
    /\ nEdits < MaxEdits
    /\ nEdits' = nEdits + 1
    /\ table' = [r \in 1..Len(table) |-> [table[r] EXCEPT !.checked = checked]]
    /\ UNCHANGED <<import_btn, cancel_import_btn, devices_to_import,
                   import_thread, nStarted, threads, created>>
    /\ UNCHANGED notImportVars

\* the ids the entries of a row's pickers carry as item data, and the ids
\* a default may be: none, one of them, or one no row picker has an entry for
PickerIds == Ids \ {NoneId}

DefaultIds == Ids \cup {2}

\* the loop over a picker's entries: the entry with the id becomes the
\* current one, and nothing changes if there is none
with_current_id(current, id) == IF id \in PickerIds THEN id ELSE current

\* the defaults applied to every row, checked or not
DefaultsAppliedToEveryRow(row, site_id, role_id, platform_id) ==
    [row EXCEPT !.site = IF site_id # NoneId THEN with_current_id(@, site_id) ELSE @,
                !.role = IF role_id # NoneId THEN with_current_id(@, role_id) ELSE @,
                !.platform = IF platform_id # NoneId
                             THEN with_current_id(@, platform_id) ELSE @]

\* one row after DeviceTableWidget.apply_defaults_to_selected
DefaultsApplied(row, site_id, role_id, platform_id) ==
    IF ~row.checked THEN row
    ELSE [row EXCEPT !.site = IF site_id # NoneId THEN with_current_id(@, site_id) ELSE @,
                     !.role = IF role_id # NoneId THEN with_current_id(@, role_id) ELSE @,
                     !.platform = IF platform_id # NoneId
                                  THEN with_current_id(@, platform_id) ELSE @]

\* "Apply Defaults" clicked, with the default combos on site_id, role_id
\* and platform_id
apply_defaults_to_selected(site_id, role_id, platform_id) ==
    /\ nEdits < MaxEdits
    /\ nEdits' = nEdits + 1
    /\ IF site_id # NoneId \/ role_id # NoneId \/ platform_id # NoneId
       THEN table' = [r \in 1..Len(table) |->
                        DefaultsApplied(table[r], site_id, role_id, platform_id)]
       ELSE UNCHANGED table
    /\ UNCHANGED <<import_btn, cancel_import_btn, devices_to_import,
                   import_thread, nStarted, threads, created>>
    /\ UNCHANGED notImportVars

----------------------------------------------------------------------------
(* SecureCredentials (helpers/credslib): the credential store the           *)
(* Configuration Manager uses.  Its code is not part of src/; the           *)
(* definitions of this section follow the contract the specification gives. *)

\* encrypt_value and its inverse: a ciphertext is not the plaintext
Encrypted(value) == <<"enc", value>>

Decrypted(cipher) == cipher[2]

\* what load_credentials returns for the stored entry list: the entries with
\* their passwords decrypted (a missing file is the empty list)
load_credentials(stored) ==
    [k \in 1..Len(stored) |-> [stored[k] EXCEPT !.password = Decrypted(@)]]

\* what save_credentials writes for an entry list: the entries with their
\* passwords encrypted
save_credentials(entries) ==
    [k \in 1..Len(entries) |-> [entries[k] EXCEPT !.password = Encrypted(@)]]

\* how a load followed by a save may end: both work, the load raises, or the
\* save raises
StoreOutcomes == {"ok", "load_raises", "save_raises"}

----------------------------------------------------------------------------
(* ConfigManager *)

ConnNames == {"a", "b"}
Urls == {"u1", "u2"}
Tokens == {"t1", "t2"}
Timestamps == {"ts1"}

\* the value standing for Python's None
None == "None"

\* AppPreferences(): the dataclass defaults (of its fields, the window size
\* and the last-used path)
DefaultPreferences ==
    [window_width |-> 1400, window_height |-> 900, last_file_path |-> ""]

\* keyword arguments callers pass to update_preferences; "zoom" is no
\* attribute of AppPreferences
PreferenceUpdates ==
    {<<"window_width", 1000>>, <<"zoom", 2>>}

\* f"netbox_token_{name}"
token_key(name) == <<"netbox_token_", name>>

\* index of the first connection with that name, 0 if none
ConnectionIndex(conns, name) ==
    IF \E k \in 1..Len(conns) : conns[k].name = name
    THEN CHOOSE k \in 1..Len(conns) :
            /\ conns[k].name = name
            /\ \A j \in 1..(k - 1) : conns[j].name # name
    ELSE 0

\* get_connection: the connection in a one-element sequence, <<>> for None
get_connection(conns, name) ==
    IF ConnectionIndex(conns, name) = 0 THEN <<>>
    ELSE <<conns[ConnectionIndex(conns, name)]>>

\* index of the first entry with that key, 0 if none
EntryIndex(entries, key) ==
    IF \E k \in 1..Len(entries) : entries[k].key = key
    THEN CHOOSE k \in 1..Len(entries) :
            /\ entries[k].key = key
            /\ \A j \in 1..(k - 1) : entries[j].key # key
    ELSE 0

\* add_connection's "update or add token" loop
TokenUpserted(entries, key, token) ==
    IF EntryIndex(entries, key) # 0
    THEN [entries EXCEPT ![EntryIndex(entries, key)].password = token]
    ELSE Append(entries, [key |-> key, password |-> token,
                          type |-> "netbox_api_token"])

\* update_connection's loop: the first matching entry gets the token
TokenUpdated(entries, key, token) ==
    IF EntryIndex(entries, key) # 0
    THEN [entries EXCEPT ![EntryIndex(entries, key)].password = token]
    ELSE entries

\* delete_connection's two filters
ConnectionsWithout(conns, name) == SelectSeq(conns, LAMBDA c : c.name # name)

EntriesWithout(entries, key) == SelectSeq(entries, LAMBDA e : e.key # key)

\* the config file after _save_config: written only while the store is
\* unlocked; a failed write is logged and leaves the file as it was
save_config(conns, prefs, write_ok) ==
    IF cm_unlocked /\ write_ok
    THEN [exists |-> TRUE, connections |-> conns, preferences |-> prefs]
    ELSE config_file

\* the credential file after a load / modify / save sequence
SavedEntries(entries, io) ==
    IF io = "ok" THEN save_credentials(entries) ELSE credentials_file

\* update_connection: the connection list, the two files and the value
\* returned
update_connection(conns, name, url, token, verify_ssl, io, write_ok) ==
    LET k == ConnectionIndex(conns, name)
        updated == [conns EXCEPT ![k].url = url, ![k].verify_ssl = verify_ssl]
        entries == TokenUpdated(load_credentials(credentials_file),
                                token_key(name), token)
    IN IF k = 0
       THEN [conns |-> conns, creds |-> credentials_file, config |-> config_file,
             ret |-> FALSE]
       ELSE IF io # "ok"
       THEN [conns |-> updated, creds |-> credentials_file, config |-> config_file,
             ret |-> FALSE]
       ELSE [conns |-> updated, creds |-> save_credentials(entries),
             config |-> save_config(updated, cm_preferences, write_ok),
             ret |-> TRUE]

\* add_connection
add_connection(conns, name, url, token, verify_ssl, io, write_ok) ==
    LET appended == Append(conns, [name |-> name, url |-> url,
                                   verify_ssl |-> verify_ssl, last_used |-> ""])
        entries == TokenUpserted(load_credentials(credentials_file),
                                 token_key(name), token)
    IN IF ~cm_unlocked
       THEN [conns |-> conns, creds |-> credentials_file, config |-> config_file,
             ret |-> FALSE]
       ELSE IF get_connection(conns, name) # <<>>
       THEN update_connection(conns, name, url, token, verify_ssl, io, write_ok)
       ELSE IF io # "ok"
       THEN [conns |-> appended, creds |-> credentials_file, config |-> config_file,
             ret |-> FALSE]
       ELSE [conns |-> appended, creds |-> save_credentials(entries),
             config |-> save_config(appended, cm_preferences, write_ok),
             ret |-> TRUE]

\* delete_connection
delete_connection(conns, name, io, write_ok) ==
    LET remaining == ConnectionsWithout(conns, name)
        entries == EntriesWithout(load_credentials(credentials_file), token_key(name))
    IN IF ~cm_unlocked
       THEN [conns |-> conns, creds |-> credentials_file, config |-> config_file,
             ret |-> FALSE]
       ELSE IF io # "ok"
       THEN [conns |-> remaining, creds |-> credentials_file, config |-> config_file,
             ret |-> FALSE]
       ELSE [conns |-> remaining, creds |-> save_credentials(entries),
             config |-> save_config(remaining, cm_preferences, write_ok),
             ret |-> TRUE]

\* the password of the first entry under a connection's key in a stored
\* entry list, None if there is none
StoredToken(stored, name) ==
    LET entries == load_credentials(stored)
        k == EntryIndex(entries, token_key(name))
    IN IF k = 0 THEN None ELSE entries[k].password

\* get_connection_token, the credential file being readable
get_connection_token(name) ==
    IF ~cm_unlocked THEN None ELSE StoredToken(credentials_file, name)

\* update_preferences: setattr for the recognised keys
PreferencesUpdated(prefs, kwarg) ==
    IF kwarg[1] \in DOMAIN prefs THEN [prefs EXCEPT ![kwarg[1]] = kwarg[2]] ELSE prefs

\* the connections and preferences _load_config leaves in memory
load_config(conns, prefs) ==
    IF ~config_file.exists THEN [conns |-> conns, prefs |-> prefs]
    ELSE [conns |-> config_file.connections, prefs |-> config_file.preferences]

AddConnection(name, url, token, verify_ssl, io, write_ok) ==
    /\ cm_ops < MaxOps
    /\ LET r == add_connection(cm_connections, name, url, token, verify_ssl, io, write_ok)
       IN /\ cm_connections' = r.conns
          /\ credentials_file' = r.creds
          /\ config_file' = r.config
          /\ cm_ret' = <<r.ret>>
    /\ cm_ops' = cm_ops + 1
    /\ UNCHANGED <<cm_unlocked, cm_preferences, cm_instance>>
    /\ UNCHANGED notConfigVars

UpdateConnection(name, url, token, verify_ssl, io, write_ok) ==
    /\ cm_ops < MaxOps
    /\ LET r == update_connection(cm_connections, name, url, token, verify_ssl, io,
                                  write_ok)
       IN /\ cm_connections' = r.conns
          /\ credentials_file' = r.creds
          /\ config_file' = r.config
          /\ cm_ret' = <<r.ret>>
    /\ cm_ops' = cm_ops + 1
    /\ UNCHANGED <<cm_unlocked, cm_preferences, cm_instance>>
    /\ UNCHANGED notConfigVars

DeleteConnection(name, io, write_ok) ==
    /\ cm_ops < MaxOps
    /\ LET r == delete_connection(cm_connections, name, io, write_ok)
       IN /\ cm_connections' = r.conns
          /\ credentials_file' = r.creds
          /\ config_file' = r.config
          /\ cm_ret' = <<r.ret>>
    /\ cm_ops' = cm_ops + 1
    /\ UNCHANGED <<cm_unlocked, cm_preferences, cm_instance>>
    /\ UNCHANGED notConfigVars

UpdatePreferences(kwarg, write_ok) ==
    /\ cm_ops < MaxOps
    /\ cm_preferences' = PreferencesUpdated(cm_preferences, kwarg)
    /\ config_file' = save_config(cm_connections, cm_preferences', write_ok)
    /\ cm_ret' = <<>>
    /\ cm_ops' = cm_ops + 1
    /\ UNCHANGED <<cm_unlocked, cm_connections, credentials_file, cm_instance>>
    /\ UNCHANGED notConfigVars

UpdateConnectionLastUsed(name, now, write_ok) ==
    /\ cm_ops < MaxOps
    /\ LET k == ConnectionIndex(cm_connections, name)
       IN IF k # 0
          THEN /\ cm_connections' = [cm_connections EXCEPT ![k].last_used = now]
               /\ config_file' = save_config(cm_connections', cm_preferences, write_ok)
          ELSE UNCHANGED <<cm_connections, config_file>>
    /\ cm_ret' = <<>>
    /\ cm_ops' = cm_ops + 1
    /\ UNCHANGED <<cm_unlocked, cm_preferences, credentials_file, cm_instance>>
    /\ UNCHANGED notConfigVars

\* unlock(password): the store decides; on success _load_config runs
Unlock(password_ok) ==
    /\ ~cm_unlocked
    /\ cm_unlocked' = password_ok
    /\ IF password_ok
       THEN /\ cm_connections' = load_config(cm_connections, cm_preferences).conns
            /\ cm_preferences' = load_config(cm_connections, cm_preferences).prefs
       ELSE UNCHANGED <<cm_connections, cm_preferences>>
    /\ cm_ret' = <<password_ok>>
    /\ UNCHANGED <<config_file, credentials_file, cm_ops, cm_instance>>
    /\ UNCHANGED notConfigVars

\* ConfigManager(): a new instance over the same config directory
NewConfigManager ==
    /\ cm_instance < MaxInstances
    /\ cm_instance' = cm_instance + 1
    /\ cm_unlocked' = FALSE
    /\ cm_connections' = <<>>
    /\ cm_preferences' = DefaultPreferences
    /\ cm_ret' = <<>>
    /\ UNCHANGED <<config_file, credentials_file, cm_ops>>
    /\ UNCHANGED notConfigVars

----------------------------------------------------------------------------
(* DeviceDiscoveryModel: strings are sequences of one-character strings *)

\* the topology's device names, the node-details ips, the peer name sets
DiscoveredNames == {<<"s", "w">>, <<"S", "W">>, <<"r">>}

DiscoveredIps == {<<>>, <<"5">>, <<" ", "5">>}

PeerSets == {{}, {<<"s", "w">>}}

\* the inventory's device names (<<>>: no name) and primary_ip4 values as
\* str() renders them (<<>>: None)
InventoryNames == {<<"S", "W">>, <<"r">>, <<>>}

InventoryIps == {<<>>, <<"5", "/", "2">>, <<"6">>}

UpperCase ==
    <<"A", "B", "C", "D", "E", "F", "G", "H", "I", "J", "K", "L", "M",
      "N", "O", "P", "Q", "R", "S", "T", "U", "V", "W", "X", "Y", "Z">>

LowerCase ==
    <<"a", "b", "c", "d", "e", "f", "g", "h", "i", "j", "k", "l", "m",
      "n", "o", "p", "q", "r", "s", "t", "u", "v", "w", "x", "y", "z">>

LowerChar(c) ==
    IF \E i \in 1..Len(UpperCase) : UpperCase[i] = c
    THEN LowerCase[CHOOSE i \in 1..Len(UpperCase) : UpperCase[i] = c]
    ELSE c

\* str.lower()
lower(s) == [k \in 1..Len(s) |-> LowerChar(s[k])]

RECURSIVE lstrip(_)
lstrip(s) == IF s # <<>> /\ Head(s) = " " THEN lstrip(Tail(s)) ELSE s

RECURSIVE rstrip(_)
rstrip(s) ==
    IF s # <<>> /\ s[Len(s)] = " " THEN rstrip(SubSeq(s, 1, Len(s) - 1)) ELSE s

\* str.strip()
strip(s) == rstrip(lstrip(s))

\* s.split('/')[0]
RECURSIVE before_slash(_)
before_slash(s) ==
    IF s = <<>> \/ Head(s) = "/" THEN <<>>
    ELSE <<Head(s)>> \o before_slash(Tail(s))

\* the main devices alone
all_device_names_without_peers(discovered) == DOMAIN discovered

\* the names that will appear in the table: main devices and the peers
\* that are no main device
all_device_names(discovered) ==
    DOMAIN discovered
        \cup {p \in UNION {discovered[d].peers : d \in DOMAIN discovered} :
                p \notin DOMAIN discovered}

\* the name test of the matcher, compared as the program's strings are
name_matches_case_sensitive(nb_device, device_name) ==
    nb_device.name # <<>> /\ nb_device.name = device_name

\* the name test of the matcher
name_matches(nb_device, device_name) ==
    nb_device.name # <<>> /\ lower(nb_device.name) = lower(device_name)

\* the primary-IP test of nbwiz2's matcher
ip_matches(nb_device, device_ip) ==
    /\ device_ip # <<>>
    /\ nb_device.primary_ip4 # <<>>
    /\ before_slash(nb_device.primary_ip4) = device_ip

\* potential_matches of one device name in netbox_api.py: ('name', device k)
\* for the inventory devices that pass the name test, in list order
potential_matches(device_name, netbox_devices) ==
    SelectSeq([k \in 1..Len(netbox_devices) |-> <<"name", k>>],
              LAMBDA m : name_matches(netbox_devices[m[2]], device_name))

\* netbox_api.py's find_potential_matches: names without a match are left out
find_potential_matches(discovered, netbox_devices) ==
    LET matched == {n \in all_device_names(discovered) :
                        potential_matches(n, netbox_devices) # <<>>}
    IN [n \in matched |-> potential_matches(n, netbox_devices)]

\* potential_matches of one main device in nbwiz2.py, from inventory device
\* k on: a name tuple, then an ip tuple
RECURSIVE potential_matches_nbwiz2(_, _, _, _)
potential_matches_nbwiz2(device_name, device_ip, netbox_devices, k) ==
    IF k > Len(netbox_devices) THEN <<>>
    ELSE (IF name_matches(netbox_devices[k], device_name)
             THEN << <<"name", k>> >> ELSE <<>>)
         \o (IF ip_matches(netbox_devices[k], device_ip)
                THEN << <<"ip", k>> >> ELSE <<>>)
         \o potential_matches_nbwiz2(device_name, device_ip, netbox_devices, k + 1)

\* nbwiz2.py's find_potential_matches: main devices only
find_potential_matches_nbwiz2(discovered, netbox_devices) ==
    LET of(n) == potential_matches_nbwiz2(n, strip(discovered[n].node_details.ip),
                                          netbox_devices, 1)
        matched == {n \in DOMAIN discovered : of(n) # <<>>}
    IN [n \in matched |-> of(n)]

FindPotentialMatches ==
    /\ dm_matches' = find_potential_matches(discovered_devices, existing_inventory)
    /\ dm_matcher' = "netbox_api"
    /\ UNCHANGED <<discovered_devices, existing_inventory>>
    /\ UNCHANGED notMatchVars

FindPotentialMatchesNbwiz2 ==
    /\ dm_matches' = find_potential_matches_nbwiz2(discovered_devices, existing_inventory)
    /\ dm_matcher' = "nbwiz2"
    /\ UNCHANGED <<discovered_devices, existing_inventory>>
    /\ UNCHANGED notMatchVars

----------------------------------------------------------------------------
(* NetBoxAPI cache, NetBoxDataThread and the wizard's fetch handlers *)

\* the accessors run calls in order, their cache keys, and the keys of the
\* data dictionary their results go under
CacheKeys == <<"sites", "device_roles", "device_types_None", "existing_devices",
               "platforms">>

DataKeys == <<"sites", "roles", "device_types", "existing_devices", "platforms">>

NewFetchThread ==
    [pc |-> "check", step |-> 1, data |-> <<>>, signals |-> <<>>, failed |-> {},
     key_error |-> FALSE, cache_cleared |-> FALSE, handled |-> FALSE]

\* an accessor whose backend call raised, the exception reaching run's
\* handler
AfterBackendFailureRaising(th) ==
    [th EXCEPT !.failed = @ \cup {DataKeys[th.step]}, !.pc = "done",
               !.signals = Append(@, "data_error")]

\* an accessor whose backend call raised: the exception is caught, the
\* caller goes on to the accessor's return statement
AfterBackendFailure(th) ==
    [th EXCEPT !.failed = @ \cup {DataKeys[th.step]}, !.pc = "return"]

\* an accessor's "if key not in self._cache"
FetchCheck(t) ==
    /\ t \in DOMAIN fetch_threads
    /\ fetch_threads[t].pc = "check"
    /\ fetch_threads' = [fetch_threads EXCEPT ![t].pc =
            IF CacheKeys[fetch_threads[t].step] \in DOMAIN nb_cache
            THEN "return" ELSE "call"]
    /\ UNCHANGED <<nb_cache, nb_connected, netbox_data, nFetch>>
    /\ UNCHANGED notFetchVars

\* an accessor's backend call and cache assignment: the list, [] on failure
FetchCall(t, backend_ok) ==
    /\ t \in DOMAIN fetch_threads
    /\ fetch_threads[t].pc = "call"
    /\ LET th == fetch_threads[t]
           key == CacheKeys[th.step]
           result == IF backend_ok THEN "list" ELSE "empty"
       IN /\ nb_cache' = [k \in DOMAIN nb_cache \cup {key} |->
                            IF k = key THEN result ELSE nb_cache[k]]
          /\ fetch_threads' = [fetch_threads EXCEPT ![t] =
                IF backend_ok THEN [th EXCEPT !.pc = "return"]
                ELSE AfterBackendFailure(th)]
    /\ UNCHANGED <<nb_connected, netbox_data, nFetch>>
    /\ UNCHANGED notFetchVars

\* the accessor's "return self._cache[key]" and run's assignment; after the
\* fifth, data_ready; a missing key raises KeyError into run's handler
FetchReturn(t) ==
    /\ t \in DOMAIN fetch_threads
    /\ fetch_threads[t].pc = "return"
    /\ LET th == fetch_threads[t]
           key == CacheKeys[th.step]
           data == th.data @@ (DataKeys[th.step] :> nb_cache[key])
       IN fetch_threads' = [fetch_threads EXCEPT ![t] =
            IF key \notin DOMAIN nb_cache
            THEN [th EXCEPT !.key_error = TRUE, !.pc = "done",
                            !.signals = Append(@, "data_error")]
            ELSE IF th.step = Len(CacheKeys)
            THEN [th EXCEPT !.data = data, !.pc = "done",
                            !.signals = Append(@, "data_ready")]
            ELSE [th EXCEPT !.data = data, !.pc = "check", !.step = @ + 1]]
    /\ UNCHANGED <<nb_cache, nb_connected, netbox_data, nFetch>>
    /\ UNCHANGED notFetchVars

start_netbox_data_fetch ==
    /\ nb_connected
    /\ nFetch < MaxFetch
    /\ nFetch' = nFetch + 1
    /\ fetch_threads' = fetch_threads @@ (nFetch' :> NewFetchThread)
    /\ UNCHANGED <<nb_cache, nb_connected, netbox_data>>
    /\ UNCHANGED notFetchVars

\* refresh_netbox_data: a new, empty cache under whatever thread is running
refresh_netbox_data ==
    /\ nb_connected
    /\ nFetch < MaxFetch
    /\ nb_cache' = <<>>
    /\ nFetch' = nFetch + 1
    /\ fetch_threads' =
          [t \in DOMAIN fetch_threads |->
              IF fetch_threads[t].pc # "done"
              THEN [fetch_threads[t] EXCEPT !.cache_cleared = TRUE]
              ELSE fetch_threads[t]]
          @@ (nFetch' :> NewFetchThread)
    /\ UNCHANGED <<nb_connected, netbox_data>>
    /\ UNCHANGED notFetchVars

on_netbox_data_ready(t) ==
    /\ t \in DOMAIN fetch_threads
    /\ fetch_threads[t].pc = "done"
    /\ ~fetch_threads[t].handled
    /\ fetch_threads[t].signals = <<"data_ready">>
    /\ netbox_data' = <<fetch_threads[t].data>>
    /\ fetch_threads' = [fetch_threads EXCEPT ![t].handled = TRUE]
    /\ UNCHANGED <<nb_cache, nb_connected, nFetch>>
    /\ UNCHANGED notFetchVars

on_netbox_data_error(t) ==
    /\ t \in DOMAIN fetch_threads
    /\ fetch_threads[t].pc = "done"
    /\ ~fetch_threads[t].handled
    /\ fetch_threads[t].signals = <<"data_error">>
    /\ fetch_threads' = [fetch_threads EXCEPT ![t].handled = TRUE]
    /\ UNCHANGED <<nb_cache, nb_connected, netbox_data, nFetch>>
    /\ UNCHANGED notFetchVars

----------------------------------------------------------------------------
(* DeviceTableWidget: platform auto-matching *)

\* the common mappings of network device platforms: inventory platform name
\* and its aliases, in the order of the dictionary
platform_mappings ==
    <<[netbox_name |-> <<"c", "i", "s", "c", "o", "_", "i", "o", "s">>,
       aliases |-> <<<<"i", "o", "s">>,
                     <<"c", "i", "s", "c", "o", "-", "i", "o", "s">>,
                     <<"c", "i", "s", "c", "o", "_", "i", "o", "s">>>>],
      [netbox_name |-> <<"c", "i", "s", "c", "o", "_", "n", "x", "o", "s">>,
       aliases |-> <<<<"n", "x", "o", "s">>,
                     <<"c", "i", "s", "c", "o", "-", "n", "x", "o", "s">>,
                     <<"c", "i", "s", "c", "o", "_", "n", "x", "o", "s">>,
                     <<"n", "e", "x", "u", "s">>>>],
      [netbox_name |-> <<"c", "i", "s", "c", "o", "_", "i", "o", "s", "x", "e">>,
       aliases |-> <<<<"i", "o", "s", "x", "e">>,
                     <<"c", "i", "s", "c", "o", "-", "i", "o", "s", "x", "e">>,
                     <<"c", "i", "s", "c", "o", "_", "i", "o", "s", "x", "e">>>>],
      [netbox_name |-> <<"a", "r", "i", "s", "t", "a", "_", "e", "o", "s">>,
       aliases |-> <<<<"e", "o", "s">>,
                     <<"a", "r", "i", "s", "t", "a", "-", "e", "o", "s">>,
                     <<"a", "r", "i", "s", "t", "a", "_", "e", "o", "s">>,
                     <<"a", "r", "i", "s", "t", "a">>>>],
      [netbox_name |-> <<"j", "u", "n", "i", "p", "e", "r", "_", "j", "u", "n", "o", "s">>,
       aliases |-> <<<<"j", "u", "n", "o", "s">>,
                     <<"j", "u", "n", "i", "p", "e", "r", "-", "j", "u", "n", "o", "s">>,
                     <<"j", "u", "n", "i", "p", "e", "r", "_", "j", "u", "n", "o", "s">>,
                     <<"j", "u", "n", "i", "p", "e", "r">>>>],
      [netbox_name |-> <<"p", "a", "n", "o", "s">>,
       aliases |-> <<<<"p", "a", "l", "o", "-", "a", "l", "t", "o">>,
                     <<"p", "a", "l", "o", "a", "l", "t", "o">>,
                     <<"p", "a", "n", "-", "o", "s">>>>],
      [netbox_name |-> <<"f", "o", "r", "t", "i", "o", "s">>,
       aliases |-> <<<<"f", "o", "r", "t", "i", "n", "e", "t">>,
                     <<"f", "o", "r", "t", "i", "g", "a", "t", "e">>>>],
      [netbox_name |-> <<"l", "i", "n", "u", "x">>,
       aliases |-> <<<<"u", "b", "u", "n", "t", "u">>,
                     <<"c", "e", "n", "t", "o", "s">>,
                     <<"r", "h", "e", "l">>,
                     <<"d", "e", "b", "i", "a", "n">>>>],
      [netbox_name |-> <<"w", "i", "n", "d", "o", "w", "s">>,
       aliases |-> <<<<"w", "i", "n">>,
                     <<"m", "i", "c", "r", "o", "s", "o", "f", "t">>>>]>>

\* the discovered platform strings of the device rows
DiscoveredPlatforms ==
    {<<>>,
     <<" ">>,
     <<"I", "O", "S">>,
     <<" ", "i", "o", "s">>,
     <<"a", "r", "i", "s", "t", "a">>,
     <<"N", "e", "x", "u", "s">>,
     <<"i", "o", "s", "x", "r">>,
     <<"t", "o", "t", "a", "l", "l", "y", "-", "u", "n", "k", "n", "o", "w", "n", "-", "o", "s">>}

\* the inventory's platforms: id and name
InventoryPlatforms ==
    {[id |-> 1, name |-> <<"c", "i", "s", "c", "o", "_", "i", "o", "s">>],
     [id |-> 2, name |-> <<"a", "r", "i", "s", "t", "a", "_", "e", "o", "s">>],
     [id |-> 3, name |-> <<"c", "i", "s", "c", "o", "_", "n", "x", "o", "s">>],
     [id |-> 4, name |-> <<"i", "o", "s", "x", "r">>]}

\* a in b, of Python strings
Contains(a, b) ==
    \E i \in 1..(Len(b) - Len(a) + 1) : SubSeq(b, i, i + Len(a) - 1) = a

\* the alias test of the second loop left out
alias_match_never(discovered_lower, platform_name_lower) == FALSE

\* the alias test of the second loop: the platform's name is a key of the
\* mappings and the discovered string is one of its aliases or contains one
alias_match(discovered_lower, platform_name_lower) ==
    \E m \in 1..Len(platform_mappings) :
        /\ platform_name_lower = platform_mappings[m].netbox_name
        /\ \E a \in 1..Len(platform_mappings[m].aliases) :
              \/ discovered_lower = platform_mappings[m].aliases[a]
              \/ Contains(platform_mappings[m].aliases[a], discovered_lower)

\* the partial string test of the second loop
partial_match(discovered_lower, platform_name_lower) ==
    \/ Contains(discovered_lower, platform_name_lower)
    \/ Contains(platform_name_lower, discovered_lower)

\* what the loops test of the platform at index k
direct_test(discovered_lower, netbox_platforms, k) ==
    lower(netbox_platforms[k].name) = discovered_lower

mapped_test(discovered_lower, netbox_platforms, k) ==
    \/ alias_match(discovered_lower, lower(netbox_platforms[k].name))
    \/ partial_match(discovered_lower, lower(netbox_platforms[k].name))

\* the first loop: the index of the first platform named like the discovered
\* string, 0 if the loop ends without a return
direct_loop(discovered_lower, netbox_platforms) ==
    LET hits == {k \in 1..Len(netbox_platforms) :
                    direct_test(discovered_lower, netbox_platforms, k)}
    IN IF hits = {} THEN 0 ELSE CHOOSE k \in hits : \A j \in hits : k <= j

\* the second loop: the index of the first platform that passes the alias
\* test or the partial string test, 0 if the loop ends without a return
mapped_loop(discovered_lower, netbox_platforms) ==
    LET hits == {k \in 1..Len(netbox_platforms) :
                    mapped_test(discovered_lower, netbox_platforms, k)}
    IN IF hits = {} THEN 0 ELSE CHOOSE k \in hits : \A j \in hits : k <= j

\* _find_matching_platform: the index of the returned platform in
\* netbox_platforms, 0 for None
find_matching_platform(discovered_platform, netbox_platforms) ==
    LET discovered_lower == strip(lower(discovered_platform))
        direct == direct_loop(discovered_lower, netbox_platforms)
    IN IF discovered_platform = <<>> THEN 0
       ELSE IF direct # 0 THEN direct
       ELSE mapped_loop(discovered_lower, netbox_platforms)

FindMatchingPlatform ==
    /\ pm_result' = find_matching_platform(pm_discovered, pm_platforms)
    /\ pm_called' = TRUE
    /\ UNCHANGED <<pm_discovered, pm_platforms>>
    /\ UNCHANGED notPlatformVars

----------------------------------------------------------------------------
(* DeviceTableWidget: chunked population, and the wizard's auto-mapping *)

\* DeviceTableWidget.chunk_size
chunk_size == 50

\* what the validated topology and the matcher say of a device: node-details
\* ip, node-details platform, and the device's potential matches
DeviceCatalogue ==
    << <<(<<"1", "0", ".", "0", ".", "0", ".", "1">>),
         (<<"c", "i", "s", "c", "o", "_", "i", "o", "s">>), <<>> >>,
       <<(<<"1", "0", ".", "0", ".", "0", ".", "1">>),
         (<<"c", "i", "s", "c", "o", "_", "i", "o", "s">>), <<1>> >>,
       <<(<<>>), (<<"I", "O", "S">>), <<>> >>,
       <<(<<"1", "0", ".", "0", ".", "0", ".", "2">>), (<<>>), <<>> >>,
       <<(<<"1", "0", ".", "0", ".", "0", ".", "3">>),
         (<<"N", "e", "x", "u", "s">>), <<>> >>,
       <<(<<>>), (<<>>), <<1, 2>> >>,
       <<(<<"1", "0", ".", "0", ".", "0", ".", "4">>),
         (<<"t", "o", "t", "a", "l", "l", "y", "-", "u", "n", "k", "n", "o", "w", "n", "-", "o", "s">>),
         <<>> >> >>

\* the catalogue entry of a device name, as a record
CatalogueEntry(name, offset) ==
    LET entry == DeviceCatalogue[((name - 1 + offset) % Len(DeviceCatalogue)) + 1]
    IN [platform |-> entry[2], ip |-> entry[1], matches |-> entry[3]]

\* how the peers of the topology's devices are laid out: no peers; every
\* device has the next name as its peer; every device has the same peer,
\* with an ip and platform of its own under each device
PeerLayouts == {"none", "next", "shared"}

\* discovered_devices of the model: devices 1..n in file order, device names
\* being positive numbers (a validated topology holds no blank name)
DiscoveredDevicesOf(n, offset, layout) ==
    [k \in 1..n |->
        [name |-> k,
         peers |-> LET p == IF layout = "next" THEN k + 1 ELSE n + 1
                       e == IF layout = "next" THEN k + 1 ELSE n + k
                   IN IF layout = "none" THEN <<>>
                      ELSE <<[platform |-> CatalogueEntry(e, offset).platform,
                              name |-> p,
                              ip |-> CatalogueEntry(e, offset).ip]>>,
         node_details |-> [platform |-> CatalogueEntry(k, offset).platform,
                           ip |-> CatalogueEntry(k, offset).ip]]]

\* potential_matches of the model: the matches of every name of the topology,
\* the empty list standing for a name without an entry
PotentialMatchesOf(n, offset) ==
    [name \in 1..(n + 1) |-> CatalogueEntry(name, offset).matches]

\* the row _prepare_device_list appends for a device or a peer
device_entry(name, details, matches_by_name) ==
    [platform |-> strip(details.platform),
     name |-> name,
     ip |-> strip(details.ip),
     matches |-> matches_by_name[name]]

\* the inner loop of _prepare_device_list over the peers of a device, from
\* peer j on: a row for each peer that is no top-level device
RECURSIVE peer_entries(_, _, _, _)
peer_entries(devices, peers, matches_by_name, j) ==
    IF j > Len(peers) THEN <<>>
    ELSE IF \A d \in 1..Len(devices) : devices[d].name # peers[j].name
         THEN <<device_entry(peers[j].name, peers[j], matches_by_name)>>
              \o peer_entries(devices, peers, matches_by_name, j + 1)
         ELSE peer_entries(devices, peers, matches_by_name, j + 1)

\* the first loop of _prepare_device_list over the devices lo..hi: each device
\* in turn, followed by the rows of its peers
RECURSIVE device_list_of(_, _, _, _)
device_list_of(devices, matches_by_name, lo, hi) ==
    IF lo > hi THEN <<>>
    ELSE IF lo = hi
    THEN <<device_entry(devices[lo].name, devices[lo].node_details, matches_by_name)>>
         \o peer_entries(devices, devices[lo].peers, matches_by_name, 1)
    ELSE device_list_of(devices, matches_by_name, lo, (lo + hi) \div 2)
         \o device_list_of(devices, matches_by_name, ((lo + hi) \div 2) + 1, hi)

\* a duplicate removal that keeps the last row of each name
RECURSIVE unique_devices_keeping_last(_, _, _)
unique_devices_keeping_last(device_list, lo, hi) ==
    IF lo > hi THEN <<>>
    ELSE IF \A j \in (lo + 1)..Len(device_list) :
               device_list[j].name # device_list[lo].name
    THEN <<device_list[lo]>> \o unique_devices_keeping_last(device_list, lo + 1, hi)
    ELSE unique_devices_keeping_last(device_list, lo + 1, hi)

\* the duplicate removal of _prepare_device_list over the rows lo..hi: the
\* first row of each name, in the order of the list (no name of a validated
\* topology is blank)
RECURSIVE unique_devices(_, _, _)
unique_devices(device_list, lo, hi) ==
    IF lo > hi THEN <<>>
    ELSE IF lo = hi
    THEN IF \A j \in 1..(lo - 1) : device_list[j].name # device_list[lo].name
         THEN <<device_list[lo]>>
         ELSE <<>>
    ELSE unique_devices(device_list, lo, (lo + hi) \div 2)
         \o unique_devices(device_list, ((lo + hi) \div 2) + 1, hi)

prepare_device_list(devices, matches_by_name) ==
    CHOOSE unique \in
        {unique_devices(device_list, 1, Len(device_list)) :
            device_list \in {device_list_of(devices, matches_by_name, 1, Len(devices))}} :
        TRUE

\* _should_auto_select without the test of the matches
should_auto_select_ignoring_matches(device) ==
    strip(device.ip) # <<>> /\ strip(device.platform) # <<>>

\* _should_auto_select
should_auto_select(device) ==
    LET has_ip == device.ip # <<>> /\ strip(device.ip) # <<>>
        has_platform == device.platform # <<>> /\ strip(device.platform) # <<>>
    IN IF device.matches # <<>> THEN FALSE
       ELSE has_ip /\ has_platform

\* _populate_device_row: the cells and cell widgets of the row
populate_device_row(device, platforms) ==
    LET auto_matched_platform == find_matching_platform(device.platform, platforms)
    IN [name |-> device.name,
        status |-> Len(device.matches),
        ip |-> device.ip,
        discovered_platform |-> device.platform,
        import_checkbox |-> should_auto_select(device),
        platform_combo |-> IF auto_matched_platform # 0
                           THEN platforms[auto_matched_platform].id
                           ELSE NoneId,
        site_combo |-> NoneId,
        role_combo |-> NoneId,
        type_combo |-> NoneId]

\* a setRowCount that keeps the rows the table holds
set_row_count_keeping_rows(rows, count) == rows

\* QTableWidget.setRowCount: the populated rows that are left, those from
\* row count on being removed with their items and cell widgets
set_row_count(rows, count) ==
    IF \A row \in DOMAIN rows : row >= count THEN <<>>
    ELSE [row \in {r \in DOMAIN rows : r < count} |-> rows[row]]

\* populate_devices_with_netbox_data, as on_netbox_data_ready calls it with
\* the discovered devices, their potential matches and the fetched data
populate_devices_with_netbox_data(devices, matches_by_name, platforms) ==
    \E device_list \in {prepare_device_list(devices, matches_by_name)} :
       /\ tw_populates < MaxPopulates
       /\ netbox_data_cache' = platforms
       /\ devices_to_populate' = device_list
       /\ current_chunk_index' = 0
       /\ row_count' = Len(device_list)
       /\ tw_rows' = set_row_count(tw_rows, 0)
       /\ timer_active' = (timer_active \/ device_list # <<>>)
       /\ tw_signals' = <<>>
       /\ tw_populates' = tw_populates + 1
       /\ tw_devices' = devices
       /\ tw_edited' = {}
       /\ UNCHANGED <<mapped_count, nPicks>>
       /\ UNCHANGED notTableVars

\* a chunk that ends one row after its start
end_index_one_row(index, total) == index + 1

\* end_index = min(current_chunk_index + chunk_size, len(devices_to_populate))
end_index_of(index, total) ==
    IF index + chunk_size < total THEN index + chunk_size ELSE total

\* _populate_chunk, the slot of the population timer
populate_chunk ==
    /\ timer_active
    /\ IF current_chunk_index >= Len(devices_to_populate)
       THEN /\ timer_active' = FALSE
            /\ tw_signals' = Append(tw_signals, [signal |-> "population_complete"])
            /\ UNCHANGED <<tw_rows, current_chunk_index>>
       ELSE LET end_index == end_index_of(current_chunk_index,
                                           Len(devices_to_populate))
            IN /\ tw_rows' =
                    [row \in (DOMAIN tw_rows) \cup (current_chunk_index..(end_index - 1)) |->
                        IF row \in current_chunk_index..(end_index - 1)
                        THEN populate_device_row(devices_to_populate[row + 1],
                                                 netbox_data_cache)
                        ELSE tw_rows[row]]
               /\ tw_signals' = Append(tw_signals,
                                       [signal |-> "population_progress",
                                        current |-> end_index,
                                        total |-> Len(devices_to_populate)])
               /\ current_chunk_index' = end_index
               /\ UNCHANGED timer_active
    /\ UNCHANGED <<devices_to_populate, netbox_data_cache, row_count,
                   tw_populates, tw_devices, tw_edited, mapped_count, nPicks>>
    /\ UNCHANGED notTableVars

\* the operator picks an entry of a row's platform picker; entry 0 is the
\* "-- Select Platform --" sentinel
pick_platform(row, entry) ==
    /\ nPicks < MaxPicks
    /\ row \in DOMAIN tw_rows
    /\ entry \in 0..Len(netbox_data_cache)
    /\ tw_rows' = [tw_rows EXCEPT ![row].platform_combo =
                        IF entry = 0 THEN NoneId ELSE netbox_data_cache[entry].id]
    /\ nPicks' = nPicks + 1
    /\ tw_edited' = tw_edited \cup {row}
    /\ UNCHANGED <<devices_to_populate, netbox_data_cache, current_chunk_index,
                   timer_active, row_count, tw_signals, tw_populates, tw_devices,
                   mapped_count>>
    /\ UNCHANGED notTableVars

\* the operator ticks or clears the checkbox of a populated row, or picks an
\* entry of its site, role or device-type picker
edit_row(row, cell, id) ==
    /\ nPicks < MaxPicks
    /\ row \in DOMAIN tw_rows
    /\ \/ cell = "import_checkbox" /\ id = NoneId
          /\ tw_rows' = [tw_rows EXCEPT ![row].import_checkbox = ~@]
       \/ cell = "site_combo" /\ tw_rows' = [tw_rows EXCEPT ![row].site_combo = id]
       \/ cell = "role_combo" /\ tw_rows' = [tw_rows EXCEPT ![row].role_combo = id]
       \/ cell = "type_combo" /\ tw_rows' = [tw_rows EXCEPT ![row].type_combo = id]
    /\ nPicks' = nPicks + 1
    /\ tw_edited' = tw_edited \cup {row}
    /\ UNCHANGED <<devices_to_populate, netbox_data_cache, current_chunk_index,
                   timer_active, row_count, tw_signals, tw_populates, tw_devices,
                   mapped_count>>
    /\ UNCHANGED notTableVars

\* a populated row after apply_defaults_to_selected
defaults_on_row(row_cells, site_id, role_id, platform_id) ==
    LET new == DefaultsApplied([checked |-> row_cells.import_checkbox,
                                platform |-> row_cells.platform_combo,
                                site |-> row_cells.site_combo,
                                role |-> row_cells.role_combo,
                                type |-> row_cells.type_combo],
                               site_id, role_id, platform_id)
    IN [row_cells EXCEPT !.platform_combo = new.platform,
                         !.site_combo = new.site,
                         !.role_combo = new.role]

\* "Apply to Selected" clicked: apply_defaults_to_selected on the rows of the
\* table; a row the timer has not populated yet has no checkbox and is skipped
apply_defaults_to_rows(site_id, role_id, platform_id) ==
    /\ nPicks < MaxPicks
    /\ platform_id # NoneId =>
           \E i \in 1..Len(netbox_data_cache) : netbox_data_cache[i].id = platform_id
    /\ tw_rows' = [row \in DOMAIN tw_rows |->
                      defaults_on_row(tw_rows[row], site_id, role_id, platform_id)]
    /\ nPicks' = nPicks + 1
    /\ tw_edited' = tw_edited \cup {row \in DOMAIN tw_rows : tw_rows'[row] # tw_rows[row]}
    /\ UNCHANGED <<devices_to_populate, netbox_data_cache, current_chunk_index,
                   timer_active, row_count, tw_signals, tw_populates, tw_devices,
                   mapped_count>>
    /\ UNCHANGED notTableVars

\* one row of the loop of auto_map_all_platforms that overwrites a selection
auto_map_row_overwriting(row_cells, platforms) ==
    LET matched_platform == find_matching_platform(row_cells.discovered_platform, platforms)
    IN IF row_cells.discovered_platform = <<>> THEN row_cells
       ELSE IF matched_platform # 0
       THEN [row_cells EXCEPT !.platform_combo = platforms[matched_platform].id]
       ELSE row_cells

\* one row of the loop of auto_map_all_platforms: the row's cells afterwards
auto_map_row(row_cells, platforms) ==
    LET matched_platform == find_matching_platform(row_cells.discovered_platform, platforms)
    IN IF row_cells.discovered_platform = <<>> THEN row_cells
       ELSE IF row_cells.platform_combo # NoneId THEN row_cells
       ELSE IF matched_platform # 0
       THEN [row_cells EXCEPT !.platform_combo = platforms[matched_platform].id]
       ELSE row_cells

\* one row of the loop of auto_map_all_platforms: mapped_count += 1 is reached
auto_map_counts(row_cells, platforms) ==
    /\ row_cells.discovered_platform # <<>>
    /\ row_cells.platform_combo = NoneId
    /\ find_matching_platform(row_cells.discovered_platform, platforms) # 0
    /\ \E i \in 1..Len(platforms) :
          platforms[i].id =
              platforms[find_matching_platform(row_cells.discovered_platform,
                                               platforms)].id

\* auto_map_all_platforms; rows the timer has not populated yet have no item
\* in the discovered-platform column and are skipped
auto_map_all_platforms ==
    LET platforms == netbox_data_cache
    IN /\ tw_rows' = [row \in DOMAIN tw_rows |-> auto_map_row(tw_rows[row], platforms)]
       /\ mapped_count' =
             Cardinality({row \in DOMAIN tw_rows :
                             auto_map_counts(tw_rows[row], platforms)})
       /\ tw_edited' = tw_edited \cup
             {row \in DOMAIN tw_rows : auto_map_row(tw_rows[row], platforms) # tw_rows[row]}
       /\ UNCHANGED <<devices_to_populate, netbox_data_cache, current_chunk_index,
                      timer_active, row_count, tw_signals, tw_populates, tw_devices,
                      nPicks>>
       /\ UNCHANGED notTableVars

----------------------------------------------------------------------------
(* TopologyLoadThread: validation of the decoded topology file *)

\* A decoded JSON value is written <<type, payload>>; an object's payload is
\* the sequence of its <<key, value>> pairs in file order.
JNull == <<"null">>
JStr(s) == <<"str", s>>
JNum(n) == <<"num", n>>
JBool(b) == <<"bool", b>>
JList(elements) == <<"list", elements>>
JDict(pairs) == <<"dict", pairs>>

DigitChars == <<"0", "1", "2", "3", "4", "5", "6", "7", "8", "9">>

\* str(value) of a decoded string, one-digit number, boolean or None
str_of(value) ==
    CASE value[1] = "str" -> value[2]
      [] value[1] = "num" -> <<DigitChars[value[2] + 1]>>
      [] value[1] = "bool" -> IF value[2] THEN <<"T", "r", "u", "e">>
                              ELSE <<"F", "a", "l", "s", "e">>
      [] value[1] = "null" -> <<"N", "o", "n", "e">>

\* dict.get(key, default) on the pairs of an object
dict_get(pairs, key, default) ==
    IF \E k \in 1..Len(pairs) : pairs[k][1] = key
    THEN pairs[CHOOSE k \in 1..Len(pairs) : pairs[k][1] = key][2]
    ELSE default

\* value if isinstance(value, dict) else {}
dict_or_empty(value) == IF value[1] = "dict" THEN value[2] ELSE <<>>

\* _safe_get_string without the test for None
safe_get_string_of_none(data, key) ==
    strip(str_of(dict_get(data, key, JStr(<<>>))))

\* _safe_get_string
safe_get_string(data, key) ==
    LET value == dict_get(data, key, JStr(<<>>))
    IN IF value[1] = "null" THEN <<>>
       ELSE strip(str_of(value))

\* an interface name of a connection, left untrimmed
interface_name_untrimmed(value) ==
    IF value[1] # "null" THEN str_of(value) ELSE <<>>

\* str(connection[k]).strip() if connection[k] is not None else ''
interface_name(value) ==
    IF value[1] # "null" THEN strip(str_of(value)) ELSE <<>>

\* the loop of _safe_get_connections from entry k on
RECURSIVE validated_connections(_, _)
validated_connections(connections, k) ==
    IF k > Len(connections) THEN <<>>
    ELSE LET connection == connections[k]
         IN IF connection[1] = "list" /\ Len(connection[2]) >= 2
            THEN LET local_int == interface_name(connection[2][1])
                     remote_int == interface_name(connection[2][2])
                 IN IF local_int # <<>> /\ remote_int # <<>>
                    THEN <<<<local_int, remote_int>>>>
                         \o validated_connections(connections, k + 1)
                    ELSE validated_connections(connections, k + 1)
            ELSE validated_connections(connections, k + 1)

\* _safe_get_connections
safe_get_connections(connections_data) ==
    IF connections_data[1] # "list" THEN <<>>
    ELSE validated_connections(connections_data[2], 1)

\* the loop over the peers of a device, from peer k on
RECURSIVE validated_peers(_, _)
validated_peers(peers, k) ==
    IF k > Len(peers) THEN <<>>
    ELSE LET peer_name == peers[k][1]
             peer_data == dict_or_empty(peers[k][2])
         IN IF strip(peer_name) = <<>>
            THEN validated_peers(peers, k + 1)
            ELSE << <<peer_name,
                      [platform |-> safe_get_string(peer_data, "platform"),
                       ip |-> safe_get_string(peer_data, "ip"),
                       connections |->
                           safe_get_connections(dict_get(peer_data, "connections",
                                                         JList(<<>>)))]>> >>
                 \o validated_peers(peers, k + 1)

\* _validate_topology_data from device k on: the validated devices as
\* <<name, device>> pairs in file order (a decoded key is always a string)
RECURSIVE validate_topology_data(_, _)
validate_topology_data(raw, k) ==
    IF k > Len(raw) THEN <<>>
    ELSE LET device_name == raw[k][1]
             device_data == dict_or_empty(raw[k][2])
             node_details ==
                 dict_or_empty(dict_get(device_data, "node_details", JDict(<<>>)))
             peers == dict_or_empty(dict_get(device_data, "peers", JDict(<<>>)))
         IN IF strip(device_name) = <<>>
            THEN validate_topology_data(raw, k + 1)
            ELSE << <<device_name,
                      [node_details |->
                           [platform |-> safe_get_string(node_details, "platform"),
                            ip |-> safe_get_string(node_details, "ip")],
                       peers |-> validated_peers(peers, 1)]>> >>
                 \o validate_topology_data(raw, k + 1)

\* what a topology file may hold: a JSON object, another JSON value, text
\* that is no JSON, bytes that are no text in the encoding open() reads
\* with, or nothing that can be opened
TopologyFiles ==
    {"object", "list", "string", "number", "null", "malformed", "undecodable",
     "unreadable"}

\* open() or the read inside json.load raises
read_raises(file) == file \in {"undecodable", "unreadable"}

\* len(raw_data) and raw_data.items() work on the decoded value
has_len(file) == file \in {"object", "list", "string"}

has_items(file) == file = "object"

\* run with the one handler for every exception
run_signals_one_message(file) ==
    IF has_len(file) /\ has_items(file)
    THEN <<"load_complete">>
    ELSE <<"load_error: Error loading topology file">>

\* run without its handler for exceptions other than JSONDecodeError
run_signals_unguarded(file) ==
    IF file = "malformed" THEN <<"load_error: Invalid JSON format">>
    ELSE IF read_raises(file) \/ ~has_len(file) \/ ~has_items(file) THEN <<>>
    ELSE <<"load_complete">>

\* the terminal signals run emits: open or json.load may raise, and
\* _validate_topology_data raises on a value that is no object
run_signals(file) ==
    IF file = "malformed" THEN <<"load_error: Invalid JSON format">>
    ELSE IF read_raises(file) \/ ~has_len(file) \/ ~has_items(file)
    THEN <<"load_error: Error loading topology file">>
    ELSE <<"load_complete">>

\* the percentage computed from the entries before the current one
entry_progress_before_increment(processed, total) ==
    30 + (40 * (processed - 1)) \div total

\* progress = 30 + int((processed / total_devices) * 40), processed being
\* incremented before it
entry_progress(processed, total) == 30 + (40 * processed) \div total

\* the progress_update percentages of a run, in order: 10 before open(), 30
\* before the validation, one per top-level entry, 70 and 100 after it; a
\* run that fails ends where its exception is raised
run_progress(file, total) ==
    IF read_raises(file) \/ file = "malformed" THEN <<10>>
    ELSE IF ~has_len(file) \/ ~has_items(file) THEN <<10, 30>>
    ELSE <<10, 30>> \o [k \in 1..total |-> entry_progress(k, total)] \o <<70, 100>>

\* every emission of a run: the progress updates, then the terminal signal
run_emitted(file, total) ==
    [k \in 1..Len(run_progress(file, total)) |->
        <<"progress_update", run_progress(file, total)[k]>>]
    \o [k \in 1..Len(run_signals(file)) |-> <<run_signals(file)[k], 0>>]

\* TopologyLoadThread.run on a file that decodes to an object: the validated
\* devices are emitted with load_complete
ValidateTopologyData ==
    /\ tp_file = "object"
    /\ ~tp_done
    /\ validated_devices' = validate_topology_data(raw_data, 1)
    /\ tp_validated' = TRUE
    /\ tp_signals' = tp_signals \o run_signals(tp_file)
    /\ tp_emitted' = run_emitted(tp_file, Len(raw_data))
    /\ tp_done' = TRUE
    /\ UNCHANGED <<raw_data, tp_file>>
    /\ UNCHANGED notTopologyVars

\* TopologyLoadThread.run on any other file: nothing is validated
TopologyLoadFails ==
    /\ tp_file \in TopologyFiles \ {"object"}
    /\ ~tp_done
    /\ tp_signals' = tp_signals \o run_signals(tp_file)
    /\ tp_emitted' = run_emitted(tp_file, Len(raw_data))
    /\ tp_done' = TRUE
    /\ UNCHANGED <<raw_data, validated_devices, tp_validated, tp_file>>
    /\ UNCHANGED notTopologyVars

----------------------------------------------------------------------------
(* NetBoxImportWizard: startup and the Connection & File tab *)

\* the attributes a ConfigManager object has: those __init__ sets and the
\* methods of the class
ConfigManagerAttributes ==
    {"app_name", "credentials", "config_file", "_connections", "_preferences",
     "is_initialized", "setup_master_password", "unlock", "_load_config",
     "_save_config", "add_connection", "update_connection", "get_connection",
     "get_connection_token", "list_connections", "delete_connection",
     "update_preferences", "get_preferences", "update_connection_last_used"}

\* self.config.<attribute> raises AttributeError
raises_attribute_error(attribute) == attribute \notin ConfigManagerAttributes

\* the widgets of the connection group as create_connection_tab leaves them
BlankForm ==
    [url_input |-> "", token_input |-> "", connection_name_input |-> "",
     verify_ssl_checkbox |-> FALSE, save_connection_checkbox |-> TRUE]

\* what the operator may have entered in the connection group
Forms ==
    {BlankForm,
     [url_input |-> " ", token_input |-> "t1", connection_name_input |-> "",
      verify_ssl_checkbox |-> FALSE, save_connection_checkbox |-> TRUE],
     [url_input |-> "u1", token_input |-> "t1", connection_name_input |-> "",
      verify_ssl_checkbox |-> FALSE, save_connection_checkbox |-> TRUE],
     [url_input |-> "u1", token_input |-> "t1", connection_name_input |-> "a",
      verify_ssl_checkbox |-> TRUE, save_connection_checkbox |-> TRUE],
     [url_input |-> "u1", token_input |-> "t1", connection_name_input |-> "a",
      verify_ssl_checkbox |-> FALSE, save_connection_checkbox |-> FALSE]}

\* text().strip() of a field: of the texts above only " " has blanks
text_strip(text) == IF text = " " THEN "" ELSE text

\* no thread object, and a thread object after start()
NoThread == [pc |-> "none", signals |-> <<>>, handled |-> FALSE]

StartedThread == [pc |-> "running", signals |-> <<>>, handled |-> FALSE]

\* the device maps a topology load may emit
TopologyResults ==
    {<<>>, (<<"r">> :> [node_details |-> [ip |-> <<"5">>], peers |-> {}])}

\* populate_connection_dropdown: the picker is cleared and given its first
\* entry before the unlocked test is evaluated
populate_connection_dropdown(conns) ==
    IF raises_attribute_error("is_credentials_unlocked")
    THEN [raised |-> TRUE, items |-> <<"-- New Connection --">>]
    ELSE [raised |-> FALSE,
          items |-> <<"-- New Connection --">>
                    \o (IF cm_unlocked THEN [k \in 1..Len(conns) |-> conns[k].name]
                        ELSE <<>>)]

\* initialize_config on an initialized credential store: the unlock dialog is
\* accepted or cancelled, the password unlocks the store or does not
initialize_config(accepted, password_ok) ==
    /\ wz_phase = "created"
    /\ wz_phase' = "running"
    /\ IF ~accepted
       THEN /\ wz_init_result' = <<FALSE>>
            /\ UNCHANGED <<cm_unlocked, cm_connections, cm_preferences, cm_ret,
                           connection_combo, window_size, file_path_input, wz_message>>
       ELSE IF ~password_ok
       THEN /\ wz_init_result' = <<FALSE>>
            /\ cm_ret' = <<FALSE>>
            /\ wz_message' = "Warning: Incorrect password. Continuing without saved credentials."
            /\ UNCHANGED <<cm_unlocked, cm_connections, cm_preferences,
                           connection_combo, window_size, file_path_input>>
       ELSE LET loaded == load_config(cm_connections, cm_preferences)
                dropdown == populate_connection_dropdown(loaded.conns)
            IN /\ cm_unlocked' = TRUE
               /\ cm_connections' = loaded.conns
               /\ cm_preferences' = loaded.prefs
               /\ cm_ret' = <<TRUE>>
               /\ connection_combo' = dropdown.items
               /\ IF dropdown.raised
                  THEN /\ wz_init_result' = <<FALSE>>
                       /\ wz_message' = "Warning: Configuration error"
                       /\ UNCHANGED <<window_size, file_path_input>>
                  ELSE /\ wz_init_result' = <<TRUE>>
                       /\ window_size' = <<loaded.prefs.window_width,
                                           loaded.prefs.window_height>>
                       /\ file_path_input' =
                              IF loaded.prefs.last_file_path # ""
                              THEN loaded.prefs.last_file_path ELSE file_path_input
                       /\ UNCHANGED wz_message
    /\ UNCHANGED <<config_file, credentials_file, cm_ops, cm_instance>>
    /\ UNCHANGED <<wz_form, load_file_btn, test_connection_btn, connection_thread,
                   topology_thread, wz_results, wz_loads, wz_unhandled>>
    /\ UNCHANGED <<matchVars, fetchVars>>
    /\ UNCHANGED notWizardVars

\* the operator edits the fields and toggles of the connection group
EditForm(form) ==
    /\ wz_phase = "running"
    /\ form # wz_form
    /\ wz_form' = form
    /\ UNCHANGED <<wz_phase, wz_init_result, connection_combo, window_size,
                   file_path_input, load_file_btn, test_connection_btn,
                   connection_thread, topology_thread, wz_results, wz_loads,
                   wz_unhandled, wz_message>>
    /\ UNCHANGED <<configVars, matchVars, fetchVars>>
    /\ UNCHANGED notWizardVars

\* "Test Connection" clicked
test_netbox_connection ==
    /\ wz_phase = "running"
    /\ test_connection_btn
    /\ IF text_strip(wz_form.url_input) = "" \/ text_strip(wz_form.token_input) = ""
       THEN /\ wz_message' = "Warning: Please enter both URL and token"
            /\ UNCHANGED <<test_connection_btn, connection_thread>>
       ELSE /\ test_connection_btn' = FALSE
            /\ connection_thread' = StartedThread
            /\ wz_message' = "Testing connection..."
    /\ UNCHANGED <<wz_phase, wz_init_result, connection_combo, window_size,
                   file_path_input, wz_form, load_file_btn, topology_thread,
                   wz_results, wz_loads, wz_unhandled>>
    /\ UNCHANGED <<configVars, matchVars, fetchVars>>
    /\ UNCHANGED notWizardVars

\* the signal NetBoxConnectionThread.run ends with: the sites were listed, or
\* an exception was raised, with or without "SSL" in its text
connection_result_of(outcome) ==
    IF outcome = "connected"
    THEN [success |-> TRUE, message |-> "Connected"]
    ELSE IF outcome = "ssl_error"
    THEN [success |-> FALSE, message |-> "Connection failed, with the SSL tip"]
    ELSE [success |-> FALSE, message |-> "Connection failed"]

\* NetBoxConnectionThread.run
ConnectionThreadRun(outcome) ==
    /\ connection_thread.pc = "running"
    /\ connection_thread' =
          [connection_thread EXCEPT !.pc = "done",
                                    !.signals = Append(@, connection_result_of(outcome))]
    /\ UNCHANGED <<wz_phase, wz_init_result, connection_combo, window_size,
                   file_path_input, wz_form, load_file_btn, test_connection_btn,
                   topology_thread, wz_results, wz_loads, wz_unhandled, wz_message>>
    /\ UNCHANGED <<configVars, matchVars, fetchVars>>
    /\ UNCHANGED notWizardVars

\* save_current_connection: how the call ends
save_current_connection(form) ==
    IF ~form.save_connection_checkbox THEN "returned"
    ELSE IF text_strip(form.url_input) # "" /\ text_strip(form.token_input) # ""
    THEN IF raises_attribute_error("save_connection_if_enabled")
         THEN "AttributeError" ELSE "called"
    ELSE "returned"

\* on_connection_result, the slot of connection_result.  An exception that
\* leaves the slot ends the application or is only reported, as the
\* binding's exception hook has it.
on_connection_result ==
    /\ wz_phase = "running"
    /\ connection_thread.pc = "done"
    /\ ~connection_thread.handled
    /\ connection_thread.signals # <<>>
    /\ LET result == connection_thread.signals[1]
       IN /\ connection_thread' = [connection_thread EXCEPT !.handled = TRUE]
          /\ test_connection_btn' = TRUE
          /\ wz_results' = wz_results \cup {result.success}
          /\ wz_message' = result.message
          /\ IF result.success
             THEN /\ load_file_btn' = TRUE
                  /\ nb_connected' = TRUE
                  /\ nb_cache' = <<>>
                  /\ IF save_current_connection(wz_form) = "AttributeError"
                     THEN /\ wz_unhandled' = wz_unhandled \cup {"AttributeError"}
                          /\ wz_phase' \in {"running", "crashed"}
                     ELSE UNCHANGED <<wz_unhandled, wz_phase>>
             ELSE /\ nb_connected' = FALSE
                  /\ UNCHANGED <<load_file_btn, nb_cache, wz_unhandled, wz_phase>>
    /\ UNCHANGED <<wz_init_result, connection_combo, window_size, file_path_input,
                   wz_form, topology_thread, wz_loads>>
    /\ UNCHANGED <<fetch_threads, netbox_data, nFetch>>
    /\ UNCHANGED <<configVars, matchVars>>
    /\ UNCHANGED notWizardVars

\* browse_topology_file with a file chosen in the dialog
browse_topology_file(file_path, write_ok) ==
    /\ wz_phase = "running"
    /\ file_path # ""
    /\ file_path_input' = file_path
    /\ cm_preferences' = PreferencesUpdated(cm_preferences, <<"last_file_path", file_path>>)
    /\ config_file' = save_config(cm_connections, cm_preferences', write_ok)
    /\ UNCHANGED <<cm_unlocked, cm_connections, credentials_file, cm_ret, cm_ops,
                   cm_instance>>
    /\ UNCHANGED <<wz_phase, wz_init_result, connection_combo, window_size, wz_form,
                   load_file_btn, test_connection_btn, connection_thread,
                   topology_thread, wz_results, wz_loads, wz_unhandled, wz_message>>
    /\ UNCHANGED <<matchVars, fetchVars>>
    /\ UNCHANGED notWizardVars

\* "Load Topology" clicked
load_topology_file ==
    /\ wz_phase = "running"
    /\ load_file_btn
    /\ wz_loads < MaxLoads
    /\ IF text_strip(file_path_input) = ""
       THEN /\ wz_message' = "Warning: Please select a file"
            /\ UNCHANGED <<load_file_btn, topology_thread>>
       ELSE /\ load_file_btn' = FALSE
            /\ topology_thread' = StartedThread
            /\ wz_message' = "Loading topology"
    /\ UNCHANGED <<wz_phase, wz_init_result, connection_combo, window_size,
                   file_path_input, wz_form, test_connection_btn, connection_thread,
                   wz_results, wz_loads, wz_unhandled>>
    /\ UNCHANGED <<configVars, matchVars, fetchVars>>
    /\ UNCHANGED notWizardVars

\* TopologyLoadThread.run as the wizard sees it: one terminal signal
TopologyThreadEmits(file, devices) ==
    /\ topology_thread.pc = "running"
    /\ topology_thread' =
          [topology_thread EXCEPT
              !.pc = "done",
              !.signals = [k \in 1..Len(run_signals(file)) |->
                              [devices |-> IF file = "object" THEN devices ELSE <<>>,
                               signal |-> run_signals(file)[k],
                               file |-> file]]]
    /\ UNCHANGED <<wz_phase, wz_init_result, connection_combo, window_size,
                   file_path_input, wz_form, load_file_btn, test_connection_btn,
                   connection_thread, wz_results, wz_loads, wz_unhandled, wz_message>>
    /\ UNCHANGED <<configVars, matchVars, fetchVars>>
    /\ UNCHANGED notWizardVars

\* start_netbox_data_fetch as on_topology_loaded calls it: the threads after it
fetch_started(connected) ==
    IF connected THEN fetch_threads @@ ((nFetch + 1) :> NewFetchThread)
    ELSE fetch_threads

\* on_topology_loaded, the slot of load_complete
on_topology_loaded ==
    /\ wz_phase = "running"
    /\ topology_thread.pc = "done"
    /\ ~topology_thread.handled
    /\ topology_thread.signals # <<>>
    /\ topology_thread.signals[1].signal = "load_complete"
    /\ wz_loads < MaxLoads
    /\ nb_connected => nFetch < MaxFetch
    /\ topology_thread' = [topology_thread EXCEPT !.handled = TRUE]
    /\ load_file_btn' = TRUE
    /\ discovered_devices' = topology_thread.signals[1].devices
    /\ fetch_threads' = fetch_started(nb_connected)
    /\ nFetch' = IF nb_connected THEN nFetch + 1 ELSE nFetch
    /\ wz_loads' = wz_loads + 1
    /\ wz_message' = "Loaded devices"
    /\ UNCHANGED <<wz_phase, wz_init_result, connection_combo, window_size,
                   file_path_input, wz_form, test_connection_btn, connection_thread,
                   wz_results, wz_unhandled>>
    /\ UNCHANGED <<existing_inventory, dm_matches, dm_matcher>>
    /\ UNCHANGED <<nb_connected, nb_cache, netbox_data>>
    /\ UNCHANGED configVars
    /\ UNCHANGED notWizardVars

\* on_topology_error, the slot of load_error
on_topology_error ==
    /\ wz_phase = "running"
    /\ topology_thread.pc = "done"
    /\ ~topology_thread.handled
    /\ topology_thread.signals # <<>>
    /\ topology_thread.signals[1].signal # "load_complete"
    /\ topology_thread' = [topology_thread EXCEPT !.handled = TRUE]
    /\ load_file_btn' = TRUE
    /\ wz_message' = "Error: Failed to load topology file"
    /\ UNCHANGED <<wz_phase, wz_init_result, connection_combo, window_size,
                   file_path_input, wz_form, test_connection_btn, connection_thread,
                   wz_results, wz_loads, wz_unhandled>>
    /\ UNCHANGED <<configVars, matchVars, fetchVars>>
    /\ UNCHANGED notWizardVars

----------------------------------------------------------------------------
(* ImportReportGenerator: the CSV report *)

\* result.get(key, default)
result_get(result, key, default) ==
    IF key \in DOMAIN result THEN result[key] ELSE default

\* the results counted as successful: r.get('success', False) is true
successful_of(results) ==
    Len(SelectSeq(results, LAMBDA r : result_get(r, "success", FALSE)))

\* the rate cell with the quotient cut off after its first decimal
rate_cell_truncated(successful, total) ==
    <<((1000 * successful) \div total) \div 10, ((1000 * successful) \div total) % 10, "%">>

\* f"{(successful / total * 100):.1f}%": whole part, first decimal and the
\* percent sign; the format rounds to the nearest tenth, to the even one
\* when the value lies halfway
rate_cell(successful, total) ==
    LET quotient == (1000 * successful) \div total
        remainder == (1000 * successful) % total
        tenths == IF 2 * remainder > total THEN quotient + 1
                  ELSE IF 2 * remainder < total THEN quotient
                  ELSE IF quotient % 2 = 0 THEN quotient ELSE quotient + 1
    IN <<tenths \div 10, tenths % 10, "%">>

\* the Status cell that ignores the flag
status_cell_always_success(result) == "SUCCESS"

\* 'SUCCESS' if result.get('success', False) else 'FAILED'
status_cell(result) ==
    IF result_get(result, "success", FALSE) THEN "SUCCESS" ELSE "FAILED"

\* the detail row of one result
detail_row(result) ==
    <<result_get(result, "name", ""),
      status_cell(result),
      result_get(result, "netbox_id", ""),
      result_get(result, "ip_address", ""),
      result_get(result, "platform_name", ""),
      result_get(result, "site_name", ""),
      result_get(result, "role_name", ""),
      result_get(result, "device_type_name", ""),
      result_get(result, "message", ""),
      "">>

detail_header ==
    <<"Device Name", "Status", "NetBox ID", "IP Address", "Platform", "Site", "Role",
      "Device Type", "Message", "Admin Notes">>

\* the rows generate_csv_report writes, in order
report_rows(results, file) ==
    << <<"NetBox Import Report">>,
       <<"Generated:", "timestamp">>,
       <<"Topology File:", IF file # "" THEN file ELSE "Unknown">>,
       <<>>,
       <<"Import Summary">>,
       <<"Total Devices Processed:", Len(results)>>,
       <<"Successfully Created:", successful_of(results)>>,
       <<"Failed to Create:", Len(results) - successful_of(results)>>,
       <<"Success Rate:", rate_cell(successful_of(results), Len(results))>>,
       <<>>,
       detail_header >>
    \o [k \in 1..Len(results) |-> detail_row(results[k])]

\* set_import_data
set_import_data(results, file) ==
    /\ rp_ret = <<>>
    /\ import_results' = results
    /\ topology_file' = file
    /\ UNCHANGED <<rp_message, rp_file, rp_ret>>
    /\ UNCHANGED notReportVars

\* generate_csv_report: the save dialog gives a path or is cancelled; open()
\* may raise, and so may a write after some rows
generate_csv_report(path_chosen, io, written) ==
    /\ rp_ret = <<>>
    /\ IF import_results = <<>>
       THEN /\ rp_message' = "No Data"
            /\ rp_ret' = <<FALSE>>
            /\ UNCHANGED rp_file
       ELSE IF ~path_chosen
       THEN /\ rp_ret' = <<FALSE>>
            /\ UNCHANGED <<rp_message, rp_file>>
       ELSE IF io = "open_fails"
       THEN /\ rp_message' = "Report Error"
            /\ rp_ret' = <<FALSE>>
            /\ UNCHANGED rp_file
       ELSE IF io = "write_fails"
       THEN /\ rp_message' = "Report Error"
            /\ rp_ret' = <<FALSE>>
            /\ rp_file' = <<SubSeq(report_rows(import_results, topology_file), 1, written)>>
       ELSE /\ rp_message' = "Report Generated"
            /\ rp_ret' = <<TRUE>>
            /\ rp_file' = <<report_rows(import_results, topology_file)>>
    /\ UNCHANGED <<import_results, topology_file>>
    /\ UNCHANGED notReportVars

----------------------------------------------------------------------------
(* export_device_table_to_csv *)

export_headers ==
    <<"Selected for Import", "Device Name", "IP Address", "Discovered Platform",
      "NetBox Platform", "NetBox Status", "Site", "Role", "Device Type">>

\* the cell of a picker column: currentText() if the row has the picker and
\* its currentData() is an id
combo_cell(has_widgets, id) ==
    IF has_widgets /\ id # NoneId THEN <<"text of", id>> ELSE <<"-- Not Selected --">>

\* row_data of one table row; a row the population has not reached has no
\* items and no cell widgets
export_row(row) ==
    IF row \in DOMAIN tw_rows
    THEN <<IF tw_rows[row].import_checkbox THEN "Yes" ELSE "No",
           tw_rows[row].name,
           tw_rows[row].ip,
           tw_rows[row].discovered_platform,
           combo_cell(TRUE, tw_rows[row].platform_combo),
           IF tw_rows[row].status > 0 THEN <<"Found", tw_rows[row].status>>
           ELSE <<"New device">>,
           combo_cell(TRUE, tw_rows[row].site_combo),
           combo_cell(TRUE, tw_rows[row].role_combo),
           combo_cell(TRUE, tw_rows[row].type_combo)>>
    ELSE <<"No", <<>>, <<>>, <<>>, combo_cell(FALSE, NoneId), <<>>,
           combo_cell(FALSE, NoneId), combo_cell(FALSE, NoneId),
           combo_cell(FALSE, NoneId)>>

\* the rows a complete export writes
export_rows == <<export_headers>> \o [k \in 1..row_count |-> export_row(k - 1)]

\* the export without its test for an empty table
export_outcome_without_row_test(path_chosen, io, written) ==
    IF ~path_chosen
    THEN [ret |-> FALSE, message |-> "", file |-> <<>>]
    ELSE IF io = "open_fails"
    THEN [ret |-> FALSE, message |-> "Export Error", file |-> <<>>]
    ELSE IF io = "write_fails"
    THEN [ret |-> FALSE, message |-> "Export Error",
          file |-> <<SubSeq(export_rows, 1, written)>>]
    ELSE [ret |-> TRUE, message |-> "Export Complete", file |-> <<export_rows>>]

\* what export_device_table_to_csv returns, shows and leaves on disk: the
\* dialog gives a path or is cancelled; open() may raise, and so may a
\* write after some rows
export_outcome(path_chosen, io, written) ==
    IF row_count = 0
    THEN [ret |-> FALSE, message |-> "No Data", file |-> <<>>]
    ELSE IF ~path_chosen
    THEN [ret |-> FALSE, message |-> "", file |-> <<>>]
    ELSE IF io = "open_fails"
    THEN [ret |-> FALSE, message |-> "Export Error", file |-> <<>>]
    ELSE IF io = "write_fails"
    THEN [ret |-> FALSE, message |-> "Export Error",
          file |-> <<SubSeq(export_rows, 1, written)>>]
    ELSE [ret |-> TRUE, message |-> "Export Complete", file |-> <<export_rows>>]

export_device_table_to_csv(path_chosen, io, written) ==
    /\ ex_ret = <<>>
    /\ written <= row_count
    /\ ex_ret' = <<export_outcome(path_chosen, io, written).ret>>
    /\ ex_message' = export_outcome(path_chosen, io, written).message
    /\ ex_file' = export_outcome(path_chosen, io, written).file
    /\ UNCHANGED notExportVars

----------------------------------------------------------------------------
(* nbwiz2: saving the connection of the form *)

\* the name save_current_connection saves under when the name field is
\* blank: f"NetBox-{count + 1}", count being the number of saved connections
AutoName(count) ==
    <<"NetBox-1", "NetBox-2", "NetBox-3", "NetBox-4", "NetBox-5">>[count + 1]

\* the connection list after update_connection_last_used(name)
last_used_updated(conns, name, now) ==
    IF ConnectionIndex(conns, name) = 0 THEN conns
    ELSE [conns EXCEPT ![ConnectionIndex(conns, name)].last_used = now]

\* save_current_connection with the save toggle on and a URL and a token in
\* the form: the name of the form or the generated one, add_connection, and
\* on success update_connection_last_used
SaveCurrentConnection(name_input, url, token, verify_ssl, io, write_ok) ==
    /\ Len(cm_connections) < MaxSaved
    /\ IF ~cm_unlocked
       THEN UNCHANGED <<cm_connections, credentials_file, config_file, cm_ret>>
       ELSE LET name == IF text_strip(name_input) # "" THEN text_strip(name_input)
                        ELSE AutoName(Len(cm_connections))
                r == add_connection(cm_connections, name, url, token, verify_ssl,
                                    io, write_ok)
                used == last_used_updated(r.conns, name, "ts1")
            IN /\ cm_connections' = IF r.ret THEN used ELSE r.conns
               /\ credentials_file' = r.creds
               /\ config_file' = IF r.ret
                                 THEN save_config(used, cm_preferences, write_ok)
                                 ELSE r.config
               /\ cm_ret' = <<r.ret>>
    /\ UNCHANGED <<cm_unlocked, cm_preferences, cm_ops, cm_instance>>
    /\ UNCHANGED notConfigVars

----------------------------------------------------------------------------
(* NetBoxImportWizard: the backend behind the wrapper, the data and the ids *)

\* the operator types a URL into the form, or selects a saved connection
BkEditUrl(url) ==
    /\ bk_url_input' = url
    /\ UNCHANGED <<bk_connection_thread, bk_netbox_api, bk_data_threads,
                   bk_netbox_data, bk_table, bk_import_threads>>
    /\ UNCHANGED notBackendVars

\* test_netbox_connection: "Test Connection" is disabled while a test runs
BkTestConnection ==
    /\ bk_connection_thread = <<>>
    /\ bk_connection_thread' = <<bk_url_input>>
    /\ UNCHANGED <<bk_url_input, bk_netbox_api, bk_data_threads, bk_netbox_data,
                   bk_table, bk_import_threads>>
    /\ UNCHANGED notBackendVars

\* the wrapper a successful test leaves in self.netbox_api: NetBoxAPI(url,
\* token, verify_ssl) over the URL the form holds when the result is handled
wrapper_after_success(url_input, tested) == url_input

\* on_connection_result: a new wrapper on success, None on failure; nothing
\* else of the window is reset
BkOnConnectionResult(success) ==
    /\ bk_connection_thread # <<>>
    /\ bk_connection_thread' = <<>>
    /\ bk_netbox_api' = IF success
                        THEN wrapper_after_success(bk_url_input, bk_connection_thread[1])
                        ELSE None
    /\ UNCHANGED <<bk_url_input, bk_data_threads, bk_netbox_data, bk_table,
                   bk_import_threads>>
    /\ UNCHANGED notBackendVars

\* start_netbox_data_fetch, as on_topology_loaded, refresh_netbox_data and
\* refresh_device_matches call it: a NetBoxDataThread over the current
\* wrapper; without a wrapper it returns
BkStartFetch ==
    /\ bk_netbox_api # None
    /\ bk_data_threads' = bk_data_threads \cup {bk_netbox_api}
    /\ UNCHANGED <<bk_url_input, bk_connection_thread, bk_netbox_api, bk_netbox_data,
                   bk_table, bk_import_threads>>
    /\ UNCHANGED notBackendVars

\* on_netbox_data_ready for the data_ready signal of a fetch thread: the data
\* is stored and the table is populated with pickers over it
BkOnDataReady(url) ==
    /\ url \in bk_data_threads
    /\ bk_data_threads' = bk_data_threads \ {url}
    /\ bk_netbox_data' = url
    /\ bk_table' = url
    /\ UNCHANGED <<bk_url_input, bk_connection_thread, bk_netbox_api,
                   bk_import_threads>>
    /\ UNCHANGED notBackendVars

\* on_netbox_data_error for the data_error signal of a fetch thread
BkOnDataError(url) ==
    /\ url \in bk_data_threads
    /\ bk_data_threads' = bk_data_threads \ {url}
    /\ UNCHANGED <<bk_url_input, bk_connection_thread, bk_netbox_api, bk_netbox_data,
                   bk_table, bk_import_threads>>
    /\ UNCHANGED notBackendVars

\* start_import over a populated table whose checked rows are validated:
\* DeviceImportThread(self.netbox_api, self.devices_to_import)
BkStartImport ==
    /\ bk_table # None
    /\ bk_import_threads' =
          bk_import_threads \cup {[ids |-> bk_table, netbox_api |-> bk_netbox_api]}
    /\ UNCHANGED <<bk_url_input, bk_connection_thread, bk_netbox_api, bk_data_threads,
                   bk_netbox_data, bk_table>>
    /\ UNCHANGED notBackendVars

----------------------------------------------------------------------------
(* Specifications *)

\* the request lists a caller may hand to DeviceImportThread: request k is
\* for device k, fully mapped, with or without a platform
RequestLists ==
    UNION {[1..n -> {ImportRequest(0, row) :
                        row \in [checked : {TRUE}, platform : Ids,
                                 site : {1}, role : {1}, type : {1}]}]
            : n \in 0..MaxDevices}

NameRequests(reqs) == [k \in 1..Len(reqs) |-> [reqs[k] EXCEPT !.name = k]]

\* no ConfigManager call was made yet; its files do not exist
ConfigIdle ==
    /\ cm_unlocked = FALSE
    /\ cm_connections = <<>>
    /\ cm_preferences = DefaultPreferences
    /\ config_file = [exists |-> FALSE]
    /\ credentials_file = <<>>
    /\ cm_ret = <<>>
    /\ cm_ops = 0
    /\ cm_instance = 1

\* the Import tab as create_import_tab leaves it, the table not yet populated
ImportIdle ==
    /\ table = <<>>
    /\ import_btn = FALSE
    /\ cancel_import_btn = FALSE
    /\ devices_to_import = <<>>
    /\ import_thread = 0
    /\ nStarted = 0
    /\ nEdits = 0
    /\ threads = <<>>
    /\ created = {}

\* DeviceDiscoveryModel(): nothing discovered, nothing matched
MatchIdle ==
    /\ discovered_devices = <<>>
    /\ existing_inventory = <<>>
    /\ dm_matches = <<>>
    /\ dm_matcher = "none"

\* the wizard before a connection was made
FetchIdle ==
    /\ nb_connected = FALSE
    /\ nb_cache = <<>>
    /\ fetch_threads = <<>>
    /\ netbox_data = <<>>
    /\ nFetch = 0

\* _find_matching_platform was not called
PlatformIdle ==
    /\ pm_discovered = <<>>
    /\ pm_platforms = <<>>
    /\ pm_result = 0
    /\ pm_called = FALSE

\* DeviceTableWidget(): an empty table, the timer not started
TableIdle ==
    /\ devices_to_populate = <<>>
    /\ netbox_data_cache = <<>>
    /\ current_chunk_index = 0
    /\ timer_active = FALSE
    /\ row_count = 0
    /\ tw_rows = <<>>
    /\ tw_signals = <<>>
    /\ tw_populates = 0
    /\ tw_devices = <<>>
    /\ tw_edited = {}
    /\ mapped_count = 0
    /\ nPicks = 0

\* no topology file was loaded
TopologyIdle ==
    /\ raw_data = <<>>
    /\ validated_devices = <<>>
    /\ tp_validated = FALSE
    /\ tp_file = "none"
    /\ tp_signals = <<>>
    /\ tp_done = FALSE
    /\ tp_emitted = <<>>

\* the widgets of the Connection & File tab as setup_ui leaves them, before
\* initialize_config has run and with no thread constructed
WizardIdle ==
    /\ wz_phase = "created"
    /\ wz_init_result = <<>>
    /\ connection_combo = <<"-- New Connection --">>
    /\ window_size = <<1400, 900>>
    /\ file_path_input = ""
    /\ wz_form = BlankForm
    /\ load_file_btn = FALSE
    /\ test_connection_btn = TRUE
    /\ connection_thread = NoThread
    /\ topology_thread = NoThread
    /\ wz_results = {}
    /\ wz_loads = 0
    /\ wz_unhandled = {}
    /\ wz_message = ""

\* ImportReportGenerator(): no results set, no report written
ReportIdle ==
    /\ import_results = <<>>
    /\ topology_file = ""
    /\ rp_message = ""
    /\ rp_file = <<>>
    /\ rp_ret = <<>>

\* the export was not called
ExportIdle ==
    /\ ex_file = <<>>
    /\ ex_ret = <<>>
    /\ ex_message = ""

\* the wizard before any connection test: the first URL in the form, no
\* wrapper, no fetched data, an empty table
BackendIdle ==
    /\ bk_url_input = "u1"
    /\ bk_connection_thread = <<>>
    /\ bk_netbox_api = None
    /\ bk_data_threads = {}
    /\ bk_netbox_data = None
    /\ bk_table = None
    /\ bk_import_threads = {}

\* after start_import constructed and started one thread over a request list
InitThread ==
    /\ WizardIdle /\ ReportIdle /\ ExportIdle /\ BackendIdle
    /\ ConfigIdle /\ MatchIdle /\ FetchIdle
    /\ PlatformIdle /\ TableIdle /\ TopologyIdle
    /\ table = <<>>
    /\ import_btn = FALSE
    /\ cancel_import_btn = TRUE
    /\ \E reqs \in RequestLists :
         /\ devices_to_import = NameRequests(reqs)
         /\ threads = (1 :> NewThread(NameRequests(reqs)))
    /\ import_thread = 1
    /\ nStarted = 1
    /\ nEdits = 0
    /\ created = {}

NextThread ==
    \/ \E t \in 1..MaxThreads : ThreadIterate(t)
    \/ \E t \in 1..MaxThreads : ThreadCreate(t)
    \/ \E t \in 1..MaxThreads : ThreadFinish(t)
    \/ \E t \in 1..MaxThreads : on_import_complete(t)
    \/ CancelImport


SpecThread == InitThread /\ [][NextThread]_vars

\* after the table was populated: checkboxes as _should_auto_select left
\* them, platform combos as the auto-match left them, the others unset
InitImport ==
    /\ WizardIdle /\ ReportIdle /\ ExportIdle /\ BackendIdle
    /\ ConfigIdle /\ MatchIdle /\ FetchIdle
    /\ PlatformIdle /\ TableIdle /\ TopologyIdle
    /\ table \in [1..NumRows -> [checked : BOOLEAN, platform : Ids,
                                 site : {NoneId}, role : {NoneId}, type : {NoneId}]]
    /\ import_btn = FALSE
    /\ cancel_import_btn = FALSE
    /\ devices_to_import = <<>>
    /\ import_thread = 0
    /\ nStarted = 0
    /\ nEdits = 0
    /\ threads = <<>>
    /\ created = {}

NextImport ==
    \/ ValidateImport
    \/ StartImport
    \/ CancelImport
    \/ \E r \in 1..NumRows : ToggleCheck(r)
    \/ \E r \in 1..NumRows : SetCombo(r)
    \/ \E checked \in BOOLEAN : select_all_devices(checked)
    \/ \E site_id \in DefaultIds, role_id \in DefaultIds, platform_id \in DefaultIds :
            apply_defaults_to_selected(site_id, role_id, platform_id)
    \/ \E t \in 1..MaxThreads : ThreadIterate(t)
    \/ \E t \in 1..MaxThreads : ThreadCreate(t)
    \/ \E t \in 1..MaxThreads : ThreadFinish(t)
    \/ \E t \in 1..MaxThreads : on_import_complete(t)


\* a ConfigManager over a config directory whose store was set up
InitConfig ==
    /\ WizardIdle /\ ReportIdle /\ ExportIdle /\ BackendIdle
    /\ ImportIdle /\ ConfigIdle /\ MatchIdle /\ FetchIdle
    /\ PlatformIdle /\ TableIdle /\ TopologyIdle

NextConfig ==
    \/ \E name \in ConnNames, url \in Urls, token \in Tokens, verify_ssl \in BOOLEAN,
          io \in StoreOutcomes, write_ok \in BOOLEAN :
            AddConnection(name, url, token, verify_ssl, io, write_ok)
    \/ \E name \in ConnNames, url \in Urls, token \in Tokens, verify_ssl \in BOOLEAN,
          io \in StoreOutcomes, write_ok \in BOOLEAN :
            UpdateConnection(name, url, token, verify_ssl, io, write_ok)
    \/ \E name \in ConnNames, io \in StoreOutcomes, write_ok \in BOOLEAN :
            DeleteConnection(name, io, write_ok)
    \/ \E kwarg \in PreferenceUpdates, write_ok \in BOOLEAN :
            UpdatePreferences(kwarg, write_ok)
    \/ \E name \in ConnNames, now \in Timestamps, write_ok \in BOOLEAN :
            UpdateConnectionLastUsed(name, now, write_ok)
    \/ \E password_ok \in BOOLEAN : Unlock(password_ok)
    \/ NewConfigManager


SpecConfig == InitConfig /\ [][NextConfig]_vars

SpecImport == InitImport /\ [][NextImport]_vars

\* the topologies set_discovered_devices may be handed
DiscoveredMaps ==
    UNION {[D -> [node_details : [ip : DiscoveredIps], peers : PeerSets]] :
            D \in {S \in SUBSET DiscoveredNames : Cardinality(S) <= MaxDiscovered}}

\* the existing-device lists the matcher may be handed
InventoryLists ==
    UNION {[1..n -> [name : InventoryNames, primary_ip4 : InventoryIps]] :
            n \in 0..MaxInventory}

\* a topology was loaded and an existing-device list fetched
InitMatch ==
    /\ WizardIdle /\ ReportIdle /\ ExportIdle /\ BackendIdle
    /\ ImportIdle /\ ConfigIdle /\ FetchIdle
    /\ PlatformIdle /\ TableIdle /\ TopologyIdle
    /\ discovered_devices \in DiscoveredMaps
    /\ existing_inventory \in InventoryLists
    /\ dm_matches = <<>>
    /\ dm_matcher = "none"

NextMatch ==
    \/ FindPotentialMatches
    \/ FindPotentialMatchesNbwiz2

SpecMatch == InitMatch /\ [][NextMatch]_vars

\* after the connection test succeeded and NetBoxAPI was constructed
InitFetch ==
    /\ WizardIdle /\ ReportIdle /\ ExportIdle /\ BackendIdle
    /\ ImportIdle /\ ConfigIdle /\ MatchIdle
    /\ PlatformIdle /\ TableIdle /\ TopologyIdle
    /\ nb_connected = TRUE
    /\ nb_cache = <<>>
    /\ fetch_threads = <<>>
    /\ netbox_data = <<>>
    /\ nFetch = 0

NextFetch ==
    \/ start_netbox_data_fetch
    \/ refresh_netbox_data
    \/ \E t \in 1..MaxFetch : FetchCheck(t)
    \/ \E t \in 1..MaxFetch, backend_ok \in BOOLEAN : FetchCall(t, backend_ok)
    \/ \E t \in 1..MaxFetch : FetchReturn(t)
    \/ \E t \in 1..MaxFetch : on_netbox_data_ready(t)
    \/ \E t \in 1..MaxFetch : on_netbox_data_error(t)

SpecFetch == InitFetch /\ [][NextFetch]_vars


\* the platform lists the matcher may be handed: no platform twice
PlatformLists ==
    UNION {{ps \in [1..n -> InventoryPlatforms] :
                \A j, k \in 1..n : ps[j] = ps[k] => j = k} : n \in 0..MaxPlatforms}

\* a discovered platform string and the fetched platform list
InitPlatform ==
    /\ WizardIdle /\ ReportIdle /\ ExportIdle /\ BackendIdle
    /\ ImportIdle /\ ConfigIdle /\ MatchIdle /\ FetchIdle
    /\ TableIdle /\ TopologyIdle
    /\ pm_discovered \in DiscoveredPlatforms
    /\ pm_platforms \in PlatformLists
    /\ pm_result = 0
    /\ pm_called = FALSE

NextPlatform == FindMatchingPlatform

SpecPlatform == InitPlatform /\ [][NextPlatform]_vars

\* the platform list of the fetched data the table is populated with
TablePlatformLists ==
    {<<>>,
     <<[id |-> 4, name |-> <<"i", "o", "s", "x", "r">>],
       [id |-> 1, name |-> <<"c", "i", "s", "c", "o", "_", "i", "o", "s">>],
       [id |-> 3, name |-> <<"c", "i", "s", "c", "o", "_", "n", "x", "o", "s">>]>>}

\* on_netbox_data_ready populates the table from a loaded topology
PopulateDevices ==
    \E n \in 0..MaxTopDevices, layout \in PeerLayouts, platforms \in TablePlatformLists :
        \E devices \in {DiscoveredDevicesOf(n, 0, layout)},
           matches_by_name \in {PotentialMatchesOf(n, 0)} :
            populate_devices_with_netbox_data(devices, matches_by_name, platforms)

InitPopulate ==
    /\ WizardIdle /\ ReportIdle /\ ExportIdle /\ BackendIdle
    /\ ImportIdle /\ ConfigIdle /\ MatchIdle /\ FetchIdle
    /\ PlatformIdle /\ TableIdle /\ TopologyIdle

NextPopulate ==
    \/ PopulateDevices
    \/ populate_chunk

SpecPopulate == InitPopulate /\ [][NextPopulate]_vars

\* on_netbox_data_ready populates the table from a small topology
PopulateFewDevices ==
    \E n \in 0..MaxAutoMapDevices, offset \in 0..(Len(DeviceCatalogue) - 1),
       layout \in PeerLayouts, platforms \in TablePlatformLists :
        \E devices \in {DiscoveredDevicesOf(n, offset, layout)},
           matches_by_name \in {PotentialMatchesOf(n, offset)} :
            populate_devices_with_netbox_data(devices, matches_by_name, platforms)

PickPlatform ==
    \E row \in DOMAIN tw_rows :
        \E entry \in 0..Len(netbox_data_cache) : pick_platform(row, entry)

InitAutoMap ==
    /\ WizardIdle /\ ReportIdle /\ ExportIdle /\ BackendIdle
    /\ ImportIdle /\ ConfigIdle /\ MatchIdle /\ FetchIdle
    /\ PlatformIdle /\ TableIdle /\ TopologyIdle

NextAutoMap ==
    \/ PopulateFewDevices
    \/ populate_chunk
    \/ PickPlatform
    \/ auto_map_all_platforms

SpecAutoMap == InitAutoMap /\ [][NextAutoMap]_vars

\* what a topology file holds under 'ip' and 'platform': nothing, null, and
\* strings, numbers and booleans
ScalarCatalogue ==
    << <<"missing">>,
       JNull,
       JStr(<<>>),
       JStr(<<" ", "1", "0", ".", "0", ".", "0", ".", "1", " ">>),
       JStr(<<" ">>),
       JStr(<<"n", "u", "l", "l">>),
       JNum(5),
       JBool(TRUE) >>

\* what a topology file holds as an entry of 'connections'
ConnectionEntries ==
    << JList(<<JStr(<<"G", "i", "0", "/", "1">>)>>),
       JList(<<JStr(<<"G", "i", "0", "/", "1">>), JStr(<<"G", "i", "0", "/", "2">>)>>),
       JList(<<JStr(<<"G", "i", "0", "/", "1">>), JStr(<<>>)>>),
       JList(<<JStr(<<" ", "G", "i", "0", "/", "1">>), JStr(<<"G", "i", "0", "/", "2", " ">>),
               JStr(<<"x">>)>>),
       JList(<<JStr(<<" ">>), JStr(<<"G", "i", "0", "/", "2">>)>>),
       JList(<<JNull, JStr(<<"G", "i", "0", "/", "2">>)>>),
       JList(<<JNum(0), JBool(FALSE)>>),
       JList(<<>>),
       JStr(<<"G", "i", "0", "/", "1">>) >>

\* what a topology file holds under 'connections' when it is no list
NonListConnections ==
    << <<"missing">>, JNull, JStr(<<"G", "i", "0", "/", "1">>), JDict(<<>>) >>

ConnectionChoices ==
    {<<"value", k>> : k \in 1..Len(NonListConnections)}
    \cup {<<"list", entries>> :
            entries \in UNION {[1..n -> 1..Len(ConnectionEntries)] :
                                  n \in 0..MaxConnections}}

\* the pairs of an object with the keys whose value is not missing
ObjectOf(pairs) == SelectSeq(pairs, LAMBDA pair : pair[2] # <<"missing">>)

ConnectionsOf(choice) ==
    IF choice[1] = "value" THEN NonListConnections[choice[2]]
    ELSE JList([k \in 1..Len(choice[2]) |-> ConnectionEntries[choice[2][k]]])

\* a decoded topology file: device r1 with node details and the peers r2 and
\* " ", a device of blank name, and device r3 whose value is no object
RawTopologyOf(ip, platform, connections) ==
    << <<(<<"r", "1">>),
         JDict(<< <<"node_details",
                    JDict(ObjectOf(<< <<"ip", ip>>, <<"platform", platform>> >>))>>,
                  <<"peers",
                    JDict(<< <<(<<"r", "2">>),
                               JDict(ObjectOf(<< <<"ip", platform>>,
                                                 <<"platform", ip>>,
                                                 <<"connections", connections>> >>))>>,
                             <<(<<" ">>), JDict(<<>>)>> >>)>> >>)>>,
       <<(<<" ">>), JDict(<<>>)>>,
       <<(<<"r", "3">>), JNum(5)>> >>

InitTopology ==
    /\ WizardIdle /\ ReportIdle /\ ExportIdle /\ BackendIdle
    /\ ImportIdle /\ ConfigIdle /\ MatchIdle /\ FetchIdle
    /\ PlatformIdle /\ TableIdle
    /\ \E i, p \in 1..Len(ScalarCatalogue), choice \in ConnectionChoices :
          raw_data = RawTopologyOf(ScalarCatalogue[i], ScalarCatalogue[p],
                                   ConnectionsOf(choice))
    /\ validated_devices = <<>>
    /\ tp_validated = FALSE
    /\ tp_file = "object"
    /\ tp_signals = <<>>
    /\ tp_done = FALSE
    /\ tp_emitted = <<>>

NextTopology == ValidateTopologyData

SpecTopology == InitTopology /\ [][NextTopology]_vars

\* what earlier sessions left in the configuration directory: nothing, or one
\* saved connection with its token and stored preferences
StoredConfig(session) ==
    IF session = 0 THEN [exists |-> FALSE]
    ELSE [exists |-> TRUE,
          connections |-> <<[name |-> "a", url |-> "u1", verify_ssl |-> FALSE,
                             last_used |-> "ts1"]>>,
          preferences |-> [window_width |-> 1000, window_height |-> 900,
                           last_file_path |-> "f.json"]]

StoredCredentials(session) ==
    IF session = 0 THEN <<>>
    ELSE save_credentials(<<[key |-> token_key("a"), password |-> "t1",
                             type |-> "netbox_api_token"]>>)

\* NetBoxImportWizard.__init__ up to the call of initialize_config, over an
\* initialized credential store
InitWizard ==
    /\ ImportIdle /\ MatchIdle /\ FetchIdle
    /\ PlatformIdle /\ TableIdle /\ TopologyIdle
    /\ WizardIdle /\ ReportIdle /\ ExportIdle /\ BackendIdle
    /\ cm_unlocked = FALSE
    /\ cm_connections = <<>>
    /\ cm_preferences = DefaultPreferences
    /\ \E session \in 0..1 :
          /\ config_file = StoredConfig(session)
          /\ credentials_file = StoredCredentials(session)
    /\ cm_ret = <<>>
    /\ cm_ops = 0
    /\ cm_instance = 1

NextWizard ==
    \/ \E accepted, password_ok \in BOOLEAN : initialize_config(accepted, password_ok)
    \/ \E form \in Forms : EditForm(form)
    \/ test_netbox_connection
    \/ \E outcome \in {"connected", "refused", "ssl_error"} : ConnectionThreadRun(outcome)
    \/ on_connection_result
    \/ \E file_path \in {"f.json"}, write_ok \in BOOLEAN :
          browse_topology_file(file_path, write_ok)
    \/ load_topology_file
    \/ \E file \in TopologyFiles, devices \in TopologyResults :
          TopologyThreadEmits(file, devices)
    \/ on_topology_loaded
    \/ on_topology_error

SpecWizard == InitWizard /\ [][NextWizard]_vars

\* a thread object constructed over a file that is no JSON object, is no
\* JSON, or cannot be read
InitTopologyFails ==
    /\ WizardIdle /\ ReportIdle /\ ExportIdle /\ BackendIdle
    /\ ImportIdle /\ ConfigIdle /\ MatchIdle /\ FetchIdle
    /\ PlatformIdle /\ TableIdle
    /\ raw_data = <<>>
    /\ validated_devices = <<>>
    /\ tp_validated = FALSE
    /\ tp_file \in TopologyFiles \ {"object"}
    /\ tp_signals = <<>>
    /\ tp_done = FALSE
    /\ tp_emitted = <<>>

\* after test_netbox_connection constructed and started a connection thread
InitConnectionRun ==
    /\ ReportIdle /\ ExportIdle /\ BackendIdle
    /\ ImportIdle /\ ConfigIdle /\ MatchIdle /\ FetchIdle
    /\ PlatformIdle /\ TableIdle /\ TopologyIdle
    /\ wz_phase = "running"
    /\ wz_init_result = <<FALSE>>
    /\ connection_combo = <<"-- New Connection --">>
    /\ window_size = <<1400, 900>>
    /\ file_path_input = ""
    /\ wz_form \in {form \in Forms : /\ text_strip(form.url_input) # ""
                                     /\ text_strip(form.token_input) # ""}
    /\ load_file_btn = FALSE
    /\ test_connection_btn = FALSE
    /\ connection_thread = StartedThread
    /\ topology_thread = NoThread
    /\ wz_results = {}
    /\ wz_loads = 0
    /\ wz_unhandled = {}
    /\ wz_message = "Testing connection..."

\* the runs of the four background threads, each from the state its
\* constructor's caller leaves
InitRuns ==
    \/ InitThread
    \/ InitFetch
    \/ InitTopology
    \/ InitTopologyFails
    \/ InitConnectionRun

NextRuns ==
    \/ NextThread
    \/ NextFetch
    \/ ValidateTopologyData
    \/ TopologyLoadFails
    \/ \E outcome \in {"connected", "refused", "ssl_error"} : ConnectionThreadRun(outcome)

SpecRuns == InitRuns /\ [][NextRuns]_vars

\* the import results a caller may hand over: created, refused, without a
\* success flag, and created with no name recorded
ResultCatalogue ==
    <<[name |-> "r1", success |-> TRUE, netbox_id |-> 7, message |-> "Created"],
      [name |-> "r2", success |-> FALSE, message |-> "Failed"],
      [name |-> "r3", message |-> "Skipped"],
      [success |-> TRUE, netbox_id |-> 8]>>

\* a new ImportReportGenerator
InitReport ==
    /\ WizardIdle /\ ExportIdle /\ BackendIdle
    /\ ImportIdle /\ ConfigIdle /\ MatchIdle /\ FetchIdle
    /\ PlatformIdle /\ TableIdle /\ TopologyIdle
    /\ ReportIdle

NextReport ==
    \/ \E n \in 0..MaxResults, file \in {"", "f.json"} :
          \E choice \in [1..n -> 1..Len(ResultCatalogue)] :
             set_import_data([k \in 1..n |-> ResultCatalogue[choice[k]]], file)
    \/ \E path_chosen \in BOOLEAN, io \in {"ok", "open_fails", "write_fails"},
          written \in {0, 9} :
          generate_csv_report(path_chosen, io, written)

SpecReport == InitReport /\ [][NextReport]_vars

\* a new device table, nothing exported
InitExport ==
    /\ WizardIdle /\ ReportIdle /\ ExportIdle /\ BackendIdle
    /\ ImportIdle /\ ConfigIdle /\ MatchIdle /\ FetchIdle
    /\ PlatformIdle /\ TableIdle /\ TopologyIdle

NextExport ==
    \/ PopulateFewDevices
    \/ populate_chunk
    \/ PickPlatform
    \/ \E path_chosen \in BOOLEAN, io \in {"ok", "open_fails", "write_fails"},
          written \in 0..1 :
          export_device_table_to_csv(path_chosen, io, written)

SpecExport == InitExport /\ [][NextExport]_vars

\* the operator edits a populated row
EditRow ==
    \E row \in DOMAIN tw_rows, id \in Ids,
       cell \in {"import_checkbox", "site_combo", "role_combo", "type_combo"} :
        edit_row(row, cell, id)

InitRepopulate ==
    /\ WizardIdle /\ ReportIdle /\ ExportIdle /\ BackendIdle
    /\ ImportIdle /\ ConfigIdle /\ MatchIdle /\ FetchIdle
    /\ PlatformIdle /\ TableIdle /\ TopologyIdle

NextRepopulate ==
    \/ PopulateFewDevices
    \/ populate_chunk
    \/ PickPlatform
    \/ EditRow
    \/ \E site_id \in DefaultIds, role_id \in DefaultIds, platform_id \in Ids :
          apply_defaults_to_rows(site_id, role_id, platform_id)

SpecRepopulate == InitRepopulate /\ [][NextRepopulate]_vars

\* a thread object constructed over a file holding an object of 0..2 plain
\* entries
InitTopologyShort ==
    /\ WizardIdle /\ ReportIdle /\ ExportIdle /\ BackendIdle
    /\ ImportIdle /\ ConfigIdle /\ MatchIdle /\ FetchIdle
    /\ PlatformIdle /\ TableIdle
    /\ \E n \in 0..2 :
          raw_data = SubSeq(RawTopologyOf(JStr(<<"5">>), JNull, JNull), 1, n)
    /\ validated_devices = <<>>
    /\ tp_validated = FALSE
    /\ tp_file = "object"
    /\ tp_signals = <<>>
    /\ tp_done = FALSE
    /\ tp_emitted = <<>>

\* the runs of the topology load thread over every kind of file
InitLoad ==
    \/ InitTopology
    \/ InitTopologyShort
    \/ InitTopologyFails

NextLoad ==
    \/ ValidateTopologyData
    \/ TopologyLoadFails

SpecLoad == InitLoad /\ [][NextLoad]_vars

\* what the operator may type into the name field
NameInputs == {"", " ", "NetBox-2"}

\* a ConfigManager that was unlocked over an empty config directory
InitSave ==
    /\ WizardIdle /\ ReportIdle /\ ExportIdle /\ BackendIdle
    /\ ImportIdle /\ MatchIdle /\ FetchIdle
    /\ PlatformIdle /\ TableIdle /\ TopologyIdle
    /\ cm_unlocked = TRUE
    /\ cm_connections = <<>>
    /\ cm_preferences = DefaultPreferences
    /\ config_file = [exists |-> FALSE]
    /\ credentials_file = <<>>
    /\ cm_ret = <<>>
    /\ cm_ops = 0
    /\ cm_instance = 1

NextSave ==
    \/ \E name_input \in NameInputs, url \in Urls, io \in {"ok", "load_raises"} :
            SaveCurrentConnection(name_input, url, "t1", FALSE, io, TRUE)
    \/ \E k \in 1..Len(cm_connections) :
            DeleteConnection(cm_connections[k].name, "ok", TRUE)

SpecSave == InitSave /\ [][NextSave]_vars

InitBackend ==
    /\ WizardIdle /\ ReportIdle /\ ExportIdle /\ BackendIdle
    /\ ImportIdle /\ ConfigIdle /\ MatchIdle /\ FetchIdle
    /\ PlatformIdle /\ TableIdle /\ TopologyIdle

NextBackend ==
    \/ \E url \in Urls : BkEditUrl(url)
    \/ BkTestConnection
    \/ \E success \in BOOLEAN : BkOnConnectionResult(success)
    \/ BkStartFetch
    \/ \E url \in Urls : BkOnDataReady(url)
    \/ \E url \in Urls : BkOnDataError(url)
    \/ BkStartImport

SpecBackend == InitBackend /\ [][NextBackend]_vars

----------------------------------------------------------------------------
(* Claims about the import thread and the Import tab *)

Returned(calls) == Cardinality({k \in 1..Len(calls) : calls[k][2] = "returned"})

Raised(calls) == Cardinality({k \in 1..Len(calls) : calls[k][2] = "raised"})

\* C1: a run of the import thread that was never asked to stop, over N
\* requests, ends having begun N create-calls and emitted N device_created
\* events, the k-th for the k-th request and telling whether its call
\* returned, and one import_complete(successful, failed) with successful the
\* number of calls that returned and failed the number that raised.
C1_RunCountsEveryDevice ==
    \A t \in DOMAIN threads :
        LET th == threads[t]
            N == Len(th.import_data)
        IN (th.pc = "done" /\ ~th.interrupted) =>
              /\ Len(th.calls) = N
              /\ Len(th.events) = N
              /\ \A k \in 1..N :
                    /\ th.events[k][1] = th.import_data[k].name
                    /\ th.calls[k][1] = th.import_data[k].name
                    /\ th.events[k][2] = (th.calls[k][2] = "returned")
              /\ th.complete = << <<Returned(th.calls), Raised(th.calls)>> >>
              /\ th.complete[1][1] + th.complete[1][2] = N

\* C1 witness: three requests, the first call raised, the later two were
\* still attempted and returned, and the run reported (2, 1)
C1_Witness ==
    \E t \in DOMAIN threads :
        /\ threads[t].pc = "done"
        /\ ~threads[t].interrupted
        /\ Len(threads[t].import_data) = 3
        /\ threads[t].calls = <<<<1, "raised">>, <<2, "returned">>, <<3, "returned">>>>
        /\ threads[t].complete = << <<2, 1>> >>

RowComplete(row) == row.site # NoneId /\ row.role # NoneId /\ row.type # NoneId

\* the request list is the checked rows of tbl, in row order, with the
\* rows' selections
IsCheckedRowsOf(import_data, tbl) ==
    /\ {import_data[k].name : k \in 1..Len(import_data)}
          = {r \in 1..Len(tbl) : tbl[r].checked}
    /\ \A k \in 1..Len(import_data) :
          /\ k > 1 => import_data[k - 1].name < import_data[k].name
          /\ import_data[k].site_id = tbl[import_data[k].name].site
          /\ import_data[k].role_id = tbl[import_data[k].name].role
          /\ import_data[k].type_id = tbl[import_data[k].name].type
          /\ import_data[k].platform_id = tbl[import_data[k].name].platform

\* C2: every import thread holds a non-empty request list whose requests
\* all have a site, a role and a device type; and a step that starts a
\* thread hands it exactly the rows checked at that moment, all of them
\* complete (so an incomplete checked row, or no checked row, starts none).
C2_StartedThreadsAreValidated ==
    /\ [](\A t \in DOMAIN threads :
            /\ threads[t].import_data # <<>>
            /\ \A k \in 1..Len(threads[t].import_data) :
                  /\ threads[t].import_data[k].site_id # NoneId
                  /\ threads[t].import_data[k].role_id # NoneId
                  /\ threads[t].import_data[k].type_id # NoneId)
    /\ [][\A t \in DOMAIN threads' \ DOMAIN threads :
            /\ IsCheckedRowsOf(threads'[t].import_data, table)
            /\ \E r \in 1..Len(table) : table[r].checked
            /\ \A r \in 1..Len(table) : table[r].checked => RowComplete(table[r])]_vars

\* C2 witness: a thread was started over both rows of the table while the
\* operator has since unchecked one of them
C2_Witness ==
    \E t \in DOMAIN threads :
        /\ Len(threads[t].import_data) = 2
        /\ threads[t].pc = "loop"
        /\ threads[t].i = 1
        /\ \E r \in 1..Len(table) : ~table[r].checked

\* C3: once interruption is requested, a thread at its loop head begins no
\* further create-call (a call in flight still completes); what the backend
\* created stays created; and a finished thread has emitted one
\* import_complete whose counts are those of the calls it made.  An
\* interrupted thread at its loop head can take its final step.
C3_CooperativeCancel ==
    /\ [][\A t \in DOMAIN threads :
            (threads[t].interrupted /\ threads[t].pc = "loop" /\ t \in DOMAIN threads')
               => /\ threads'[t].pc # "creating"
                  /\ threads'[t].calls = threads[t].calls]_vars
    /\ [][created \subseteq created']_vars
    /\ [](\A t \in DOMAIN threads :
            /\ (threads[t].interrupted /\ threads[t].pc = "loop")
                  => ENABLED ThreadFinish(t)
            /\ threads[t].pc = "done" =>
                  /\ threads[t].complete =
                        << <<Returned(threads[t].calls), Raised(threads[t].calls)>> >>
                  /\ Len(threads[t].calls) <= Len(threads[t].import_data)
                  /\ Len(threads[t].events) = Len(threads[t].calls))

\* C3 witness: a run over three requests was cancelled during its first
\* call; that call returned, the device stays created, and the run ended
\* reporting (1, 0) without attempting the other two
C3_Witness ==
    \E t \in DOMAIN threads :
        /\ threads[t].pc = "done"
        /\ threads[t].interrupted
        /\ Len(threads[t].import_data) = 3
        /\ threads[t].calls = <<<<1, "returned">>>>
        /\ threads[t].complete = << <<1, 0>> >>
        /\ \E p \in created : p.name = 1

\* C5: at most one import thread is running at any time.
C5_AtMostOneImportThread ==
    Cardinality({t \in DOMAIN threads : threads[t].pc # "done"}) <= 1

----------------------------------------------------------------------------
(* Claims about the Configuration Manager *)

NamesOf(conns) == {conns[k].name : k \in 1..Len(conns)}

NamesWithToken(stored) == {n \in ConnNames : StoredToken(stored, n) # None}

IsWriteCall ==
    \/ \E name \in ConnNames, url \in Urls, token \in Tokens, verify_ssl \in BOOLEAN,
          io \in StoreOutcomes, write_ok \in BOOLEAN :
            \/ AddConnection(name, url, token, verify_ssl, io, write_ok)
            \/ UpdateConnection(name, url, token, verify_ssl, io, write_ok)
    \/ \E name \in ConnNames, io \in StoreOutcomes, write_ok \in BOOLEAN :
            DeleteConnection(name, io, write_ok)
    \/ \E kwarg \in PreferenceUpdates, write_ok \in BOOLEAN :
            UpdatePreferences(kwarg, write_ok)
    \/ \E name \in ConnNames, now \in Timestamps, write_ok \in BOOLEAN :
            UpdateConnectionLastUsed(name, now, write_ok)

\* C6: on an unlocked Configuration Manager the names of the saved
\* connections are the names that have a netbox_token_<name> credential
\* entry, whatever calls were made and however they ended.
C6_ConnectionsMatchCredentials ==
    cm_unlocked => NamesOf(cm_connections) = NamesWithToken(credentials_file)

\* C7: the connection list never holds two connections of one name, and an
\* add_connection call that returns true for a name leaves the one
\* connection of that name with the url and verify_ssl flag of that call and
\* the stored token of that call.
C7_AddConnectionIdempotent ==
    /\ [](\A j, k \in 1..Len(cm_connections) :
            cm_connections[j].name = cm_connections[k].name => j = k)
    /\ [][\A name \in ConnNames, url \in Urls, token \in Tokens, verify_ssl \in BOOLEAN,
            io \in StoreOutcomes, write_ok \in BOOLEAN :
            (AddConnection(name, url, token, verify_ssl, io, write_ok) /\ cm_ret' = <<TRUE>>)
               => /\ \E k \in 1..Len(cm_connections') :
                        /\ cm_connections'[k].name = name
                        /\ cm_connections'[k].url = url
                        /\ cm_connections'[k].verify_ssl = verify_ssl
                  /\ StoredToken(credentials_file', name) = token]_vars

\* C8: after an add_connection call returned true, a new Configuration
\* Manager unlocked over the same files finds the call's token under the
\* name and a connection of that name with the call's url and verify_ssl.
C8_RoundTripAcrossInstances ==
    [][\A name \in ConnNames, url \in Urls, token \in Tokens, verify_ssl \in BOOLEAN,
          io \in StoreOutcomes, write_ok \in BOOLEAN :
          (AddConnection(name, url, token, verify_ssl, io, write_ok) /\ cm_ret' = <<TRUE>>)
             => /\ StoredToken(credentials_file', name) = token
                /\ config_file'.exists
                /\ \E k \in 1..Len(config_file'.connections) :
                      /\ config_file'.connections[k].name = name
                      /\ config_file'.connections[k].url = url
                      /\ config_file'.connections[k].verify_ssl = verify_ssl]_vars

\* C9: while the store is locked a write call changes neither the
\* connection list, nor the preferences, nor either file, add_connection
\* and delete_connection return false, and get_connection_token returns
\* none.
C9_LockedWritesAreNoOps ==
    /\ [][(~cm_unlocked /\ IsWriteCall)
            => UNCHANGED <<cm_connections, cm_preferences, config_file,
                           credentials_file>>]_vars
    /\ [][\A name \in ConnNames, url \in Urls, token \in Tokens, verify_ssl \in BOOLEAN,
            io \in StoreOutcomes, write_ok \in BOOLEAN :
            (~cm_unlocked /\ (\/ AddConnection(name, url, token, verify_ssl, io, write_ok)
                              \/ DeleteConnection(name, io, write_ok)))
               => cm_ret' = <<FALSE>>]_vars
    /\ [](~cm_unlocked => \A name \in ConnNames : get_connection_token(name) = None)

----------------------------------------------------------------------------
(* Claims about the matcher *)

\* equal but for the case of the letters
CaseInsensitiveEqual(a, b) ==
    /\ Len(a) = Len(b)
    /\ \A k \in 1..Len(a) : LowerChar(a[k]) = LowerChar(b[k])

\* addr is ip, or ip followed by a /prefix
CidrOf(ip, addr) ==
    \/ addr = ip
    \/ /\ Len(addr) > Len(ip)
       /\ SubSeq(addr, 1, Len(ip)) = ip
       /\ addr[Len(ip) + 1] = "/"

\* the node-details ip of a main device, trimmed
NodeIp(c) == strip(discovered_devices[c].node_details.ip)

NameBasis(c, k) ==
    /\ existing_inventory[k].name # <<>>
    /\ CaseInsensitiveEqual(existing_inventory[k].name, c)

IpBasis(c, k) ==
    /\ c \in DOMAIN discovered_devices
    /\ NodeIp(c) # <<>>
    /\ existing_inventory[k].primary_ip4 # <<>>
    /\ CidrOf(NodeIp(c), existing_inventory[k].primary_ip4)

MatchesOf(c) ==
    IF c \in DOMAIN dm_matches
    THEN {dm_matches[c][j] : j \in 1..Len(dm_matches[c])}
    ELSE {}

\* the candidates of the matcher that ran: main devices, and for
\* netbox_api.py the peer-only names too
Candidates ==
    IF dm_matcher = "netbox_api"
    THEN DOMAIN discovered_devices
            \cup UNION {discovered_devices[d].peers : d \in DOMAIN discovered_devices}
    ELSE DOMAIN discovered_devices

----------------------------------------------------------------------------
(* Claims about the inventory data fetch *)

AllDataKeys == {DataKeys[k] : k \in 1..Len(DataKeys)}

\* C10 as stated: a run during which a backend fetch failed ends with the
\* one signal data_error, and no data dictionary of it reaches the UI.
C10_BackendFailureAbortsFetch ==
    \A t \in DOMAIN fetch_threads :
        (fetch_threads[t].pc = "done" /\ fetch_threads[t].failed # {})
            => /\ fetch_threads[t].signals = <<"data_error">>
               /\ netbox_data # <<fetch_threads[t].data>>

\* C10: a run emits exactly one final signal.  A backend failure does not
\* abort it: a run that finds all its keys in the cache ends with data_ready
\* carrying all five keys, and when it is the only run so far the failed
\* resources, and only they, are empty lists.  data_error is emitted only
\* when an accessor finds its key gone from a cache replaced under the run,
\* and then no complete dictionary exists.  The UI only ever holds a
\* dictionary of all five keys.
C10_BackendFailureDeliversEmptyList ==
    /\ \A t \in DOMAIN fetch_threads :
        LET th == fetch_threads[t]
        IN /\ Len(th.signals) = (IF th.pc = "done" THEN 1 ELSE 0)
           /\ th.key_error => th.cache_cleared
           /\ (th.pc = "done" /\ ~th.key_error) =>
                 /\ th.signals = <<"data_ready">>
                 /\ DOMAIN th.data = AllDataKeys
                 /\ nFetch = 1 => \A r \in AllDataKeys :
                        th.data[r] = "empty" <=> r \in th.failed
           /\ (th.pc = "done" /\ th.key_error) =>
                 /\ th.signals = <<"data_error">>
                 /\ DOMAIN th.data # AllDataKeys
    /\ netbox_data # <<>> => DOMAIN netbox_data[1] = AllDataKeys

\* C10 witness: the existing-devices fetch failed at the backend, the run
\* went on and its dictionary, with an empty existing-devices list, reached
\* the UI
C10_Witness ==
    \E t \in DOMAIN fetch_threads :
        /\ fetch_threads[t].failed = {"existing_devices"}
        /\ fetch_threads[t].signals = <<"data_ready">>
        /\ fetch_threads[t].handled
        /\ netbox_data = <<fetch_threads[t].data>>
        /\ fetch_threads[t].data["existing_devices"] = "empty"
        /\ fetch_threads[t].data["sites"] = "list"

----------------------------------------------------------------------------
(* Claims about the NetBoxAPI cache *)

\* thread t makes its accessor's backend request in this step
BackendRequest(t) ==
    /\ t \in DOMAIN fetch_threads
    /\ fetch_threads[t].pc = "call"
    /\ fetch_threads'[t].pc # "call"

\* C11: a backend request is made only for a key the cache does not hold, so
\* between two cache clears each accessor makes at most one; a cached result,
\* the empty list of a failed fetch included, stays as it is until the cache
\* is replaced; and an accessor that finds its key missing makes a request.
C11_OneRequestPerKeyBetweenClears ==
    /\ [][\A t \in 1..MaxFetch :
            BackendRequest(t) =>
                CacheKeys[fetch_threads[t].step] \notin DOMAIN nb_cache]_vars
    /\ [][refresh_netbox_data
            \/ \A k \in DOMAIN nb_cache :
                  k \in DOMAIN nb_cache' /\ nb_cache'[k] = nb_cache[k]]_vars
    /\ [][\A t \in 1..MaxFetch :
            FetchCheck(t) =>
                (fetch_threads'[t].pc = "call"
                    <=> CacheKeys[fetch_threads[t].step] \notin DOMAIN nb_cache)]_vars

----------------------------------------------------------------------------
(* Claims about platform auto-matching *)

\* the discovered platform string as the rules compare it
DiscoveredLower == strip(lower(pm_discovered))

\* platform k of the list is named like the discovered string
ExactAt(k) == lower(pm_platforms[k].name) = DiscoveredLower

\* s is an alias of the alias-table key K
IsAliasOf(s, K) ==
    \E m \in 1..Len(platform_mappings) :
        /\ platform_mappings[m].netbox_name = K
        /\ \E a \in 1..Len(platform_mappings[m].aliases) :
              platform_mappings[m].aliases[a] = s

\* s contains an alias of the alias-table key K
ContainsAliasOf(s, K) ==
    \E m \in 1..Len(platform_mappings) :
        /\ platform_mappings[m].netbox_name = K
        /\ \E a \in 1..Len(platform_mappings[m].aliases) :
              Contains(platform_mappings[m].aliases[a], s)

\* platform k of the list is an alias-table key and the discovered string is
\* one of its aliases or contains one
AliasAt(k) ==
    \/ IsAliasOf(DiscoveredLower, lower(pm_platforms[k].name))
    \/ ContainsAliasOf(DiscoveredLower, lower(pm_platforms[k].name))

\* the discovered string contains the name of platform k or is contained in it
SubstringAt(k) ==
    \/ Contains(DiscoveredLower, lower(pm_platforms[k].name))
    \/ Contains(lower(pm_platforms[k].name), DiscoveredLower)

PlatformIndices == 1..Len(pm_platforms)

\* C13: a discovered platform string that equals, ignoring case, an alias of
\* the alias-table key K is matched to some platform when the platform list
\* holds a platform named K; and a discovered string with no exact, alias or
\* substring relation to any platform of the list is matched to none.
C13_AliasMatchesAndUnrelatedDoesNot ==
    pm_called =>
        /\ (\E k \in PlatformIndices :
                IsAliasOf(lower(pm_discovered), pm_platforms[k].name))
              => pm_result # 0
        /\ (\A k \in PlatformIndices :
                ~ExactAt(k) /\ ~AliasAt(k) /\ ~SubstringAt(k))
              => pm_result = 0

\* "Nexus" against a list that holds cisco_nxos: only the alias rule relates them
C13_Witness ==
    /\ pm_called
    /\ pm_discovered = <<"N", "e", "x", "u", "s">>
    /\ \E k \in PlatformIndices :
          /\ IsAliasOf(lower(pm_discovered), pm_platforms[k].name)
          /\ ~SubstringAt(k)
          /\ pm_result = k

\* an unrelated string against a list of platforms is matched to none
C13_WitnessUnrelated ==
    /\ pm_called
    /\ pm_discovered # <<>>
    /\ Len(pm_platforms) = MaxPlatforms
    /\ \A k \in PlatformIndices : ~ExactAt(k) /\ ~AliasAt(k) /\ ~SubstringAt(k)
    /\ pm_result = 0

C15_PrecedenceOverWholeList ==
    (pm_called /\ pm_discovered # <<>>) =>
        IF \E k \in PlatformIndices : ExactAt(k)
        THEN pm_result # 0 /\ ExactAt(pm_result)
        ELSE IF \E k \in PlatformIndices : AliasAt(k)
        THEN pm_result # 0 /\ AliasAt(pm_result)
        ELSE \/ pm_result = 0 /\ \A k \in PlatformIndices : ~SubstringAt(k)
             \/ pm_result # 0 /\ SubstringAt(pm_result)

----------------------------------------------------------------------------
(* Claims about the device table *)

\* the device a populated row shows
DeviceOfRow(row) == devices_to_populate[row + 1]

NonBlank(s) == strip(s) # <<>>

PopulatedRows == DOMAIN tw_rows

Completions ==
    Cardinality({k \in 1..Len(tw_signals) :
                    tw_signals[k].signal = "population_complete"})

\* C12: population checks a row's import checkbox if and only if the device
\* has a non-blank IP, a non-blank discovered platform and no potential match.
C12_AutoSelectRule ==
    \A row \in PopulatedRows :
        tw_rows[row].import_checkbox <=>
            /\ NonBlank(DeviceOfRow(row).ip)
            /\ NonBlank(DeviceOfRow(row).platform)
            /\ Len(DeviceOfRow(row).matches) = 0

\* of two populated rows with IP and platform, the one without a match is
\* checked and the one with a match is not; a row without IP is not checked
C12_Witness ==
    \E new, known, blank \in PopulatedRows :
        /\ NonBlank(DeviceOfRow(new).ip) /\ NonBlank(DeviceOfRow(new).platform)
        /\ DeviceOfRow(new).matches = <<>>
        /\ tw_rows[new].import_checkbox
        /\ NonBlank(DeviceOfRow(known).ip) /\ NonBlank(DeviceOfRow(known).platform)
        /\ DeviceOfRow(known).matches # <<>>
        /\ ~tw_rows[known].import_checkbox
        /\ ~NonBlank(DeviceOfRow(blank).ip)
        /\ DeviceOfRow(blank).matches = <<>>
        /\ ~tw_rows[blank].import_checkbox

\* C20: whatever the size of the device map, population terminates: once the
\* table was asked to populate and its timer is not running, every row of the
\* list is populated and the completion signal was emitted exactly once.
C20_PopulationCompletes ==
    (tw_populates > 0 /\ ~timer_active) =>
        /\ PopulatedRows = 0..(Len(devices_to_populate) - 1)
        /\ Completions = 1

\* the platform the matcher finds for a row, NoneId if none
MatchedId(row) ==
    LET k == find_matching_platform(tw_rows[row].discovered_platform, netbox_data_cache)
    IN IF k = 0 THEN NoneId ELSE netbox_data_cache[k].id

\* C16: auto-map-all-platforms leaves every picker with a selection as it is,
\* sets only pickers without a selection, and reports the number of pickers
\* it set.
C16_AutoMapKeepsSelections ==
    [][auto_map_all_platforms =>
          /\ DOMAIN tw_rows' = DOMAIN tw_rows
          /\ \A row \in DOMAIN tw_rows :
                tw_rows[row].platform_combo # NoneId => tw_rows'[row] = tw_rows[row]
          /\ mapped_count' =
                Cardinality({row \in DOMAIN tw_rows :
                                tw_rows'[row].platform_combo # tw_rows[row].platform_combo})]_vars

\* an auto-mapping run has set a picker, and a row keeps a selection that is
\* not the platform its discovered platform matches
C16_Witness ==
    /\ mapped_count > 0
    /\ nPicks = MaxPicks
    /\ \E row \in PopulatedRows :
          /\ tw_rows[row].platform_combo # NoneId
          /\ MatchedId(row) # NoneId
          /\ MatchedId(row) # tw_rows[row].platform_combo

----------------------------------------------------------------------------
(* Claims about validate_import *)

CheckedRows == {r \in 1..Len(table) : table[r].checked}

RequiredFields == {"Site", "Role", "Device type"}

FieldOf(row, field) ==
    CASE field = "Site" -> row.site
      [] field = "Role" -> row.role
      [] field = "Device type" -> row.type

\* the error line that names a device and a field it lacks
ErrorLine(r, field) ==
    CASE field = "Site" -> <<r, "Site not selected">>
      [] field = "Role" -> <<r, "Role not selected">>
      [] field = "Device type" -> <<r, "Device type not selected">>

\* the checked rows' missing fields
MissingFields ==
    {m \in CheckedRows \X RequiredFields : FieldOf(table[m[1]], m[2]) = NoneId}

\* C17: validate_import fails with one error per missing site, role or device
\* type of a checked row, all listed at once, each naming the device and the
\* field; with no row checked it fails with the distinct "No Devices Selected"
\* warning; only otherwise does it succeed, enable Start Import and record the
\* checked rows as the devices to import.
C17_ValidateImportReportsEveryError ==
    /\ [](LET devices == get_selected_devices_for_import(table)
              shown == validate_warning(devices)
          IN /\ MissingFields # {} =>
                   /\ ~validate_result(devices)
                   /\ shown.title = "Validation Errors"
                   /\ Len(shown.text) = Cardinality(MissingFields)
                   /\ \A m \in MissingFields :
                         \E k \in 1..Len(shown.text) :
                            shown.text[k] = ErrorLine(m[1], m[2])
             /\ (MissingFields = {} /\ CheckedRows = {}) =>
                   /\ ~validate_result(devices)
                   /\ shown.title = "No Devices Selected"
             /\ (MissingFields = {} /\ CheckedRows # {}) =>
                   /\ validate_result(devices)
                   /\ shown.title = "")
    /\ [][ValidateImport =>
            IF MissingFields = {} /\ CheckedRows # {}
            THEN /\ import_btn'
                 /\ IsCheckedRowsOf(devices_to_import', table)
            ELSE UNCHANGED <<import_btn, devices_to_import>>]_vars
    /\ [][devices_to_import' # devices_to_import =>
            MissingFields = {} /\ CheckedRows # {}]_vars

\* a validation succeeded and recorded its rows; since then the operator has
\* cleared the device type of a checked row, which validate_import now reports
C17_Witness ==
    /\ import_btn
    /\ devices_to_import # <<>>
    /\ \E r \in CheckedRows :
          /\ table[r].site # NoneId /\ table[r].role # NoneId
          /\ table[r].type = NoneId
          /\ validate_warning(get_selected_devices_for_import(table)).text
                = <<ErrorLine(r, "Device type")>>

----------------------------------------------------------------------------
(* Claims about topology normalization *)

\* the value an object holds under a key, <<"missing">> when it has none
RawEntry(pairs, key) ==
    IF \E k \in 1..Len(pairs) : pairs[k][1] = key
    THEN pairs[CHOOSE k \in 1..Len(pairs) : pairs[k][1] = key][2]
    ELSE <<"missing">>

\* the pairs of a value that is an object, none for any other value
RawObject(value) == IF value[1] = "dict" THEN value[2] ELSE <<>>

\* a string without its leading and trailing blanks
Trimmed(s) ==
    LET inked == {k \in 1..Len(s) : s[k] # " "}
    IN IF inked = {} THEN <<>>
       ELSE SubSeq(s, CHOOSE k \in inked : \A h \in inked : k <= h,
                      CHOOSE k \in inked : \A h \in inked : h <= k)

\* the normalized form of a string field: empty for a missing key and for
\* null, the trimmed string form for every other value
ExpectedString(value) ==
    IF value[1] \in {"missing", "null"} THEN <<>> ELSE Trimmed(str_of(value))

RawDeviceOf(name) == RawObject(RawEntry(raw_data, name))

RawPeerOf(device_name, peer_name) ==
    RawObject(RawEntry(RawObject(RawEntry(RawDeviceOf(device_name), "peers")),
                       peer_name))

\* C18: after validation, the ip and platform of every device and of every
\* peer are the empty string when the file has no such key or holds null
\* there, and otherwise the string form of the value without leading and
\* trailing whitespace.
C18_StringFieldsNormalized ==
    tp_validated =>
        \A k \in 1..Len(validated_devices) :
            LET device_name == validated_devices[k][1]
                device == validated_devices[k][2]
                raw_details == RawObject(RawEntry(RawDeviceOf(device_name),
                                                  "node_details"))
            IN /\ \A field \in {"ip", "platform"} :
                      device.node_details[field]
                          = ExpectedString(RawEntry(raw_details, field))
               /\ \A j \in 1..Len(device.peers) :
                      \A field \in {"ip", "platform"} :
                          device.peers[j][2][field]
                              = ExpectedString(RawEntry(RawPeerOf(device_name,
                                                                  device.peers[j][1]),
                                                        field))

\* a validated device whose ip was null in the file and whose platform was a
\* string with blanks around it
C18_Witness ==
    /\ tp_validated
    /\ \E k \in 1..Len(validated_devices) :
          LET raw_details == RawObject(RawEntry(RawDeviceOf(validated_devices[k][1]),
                                                "node_details"))
          IN /\ RawEntry(raw_details, "ip") = JNull
             /\ RawEntry(raw_details, "platform")
                    = JStr(<<" ", "1", "0", ".", "0", ".", "0", ".", "1", " ">>)
             /\ validated_devices[k][2].node_details.ip = <<>>
             /\ validated_devices[k][2].node_details.platform
                    = <<"1", "0", ".", "0", ".", "0", ".", "1">>

\* an interface name as the normalization reads it: empty for null, the
\* trimmed string form otherwise
Coerced(value) == IF value[1] = "null" THEN <<>> ELSE Trimmed(str_of(value))

\* a connection entry that is a list of at least two elements whose first two
\* are non-empty once coerced
KeptEntry(entry) ==
    /\ entry[1] = "list"
    /\ Len(entry[2]) >= 2
    /\ Coerced(entry[2][1]) # <<>>
    /\ Coerced(entry[2][2]) # <<>>

KeptIndices(entries) == {k \in 1..Len(entries) : KeptEntry(entries[k])}

\* the position in the file of the n-th kept entry
NthKept(entries, n) ==
    CHOOSE k \in KeptIndices(entries) :
        Cardinality({h \in KeptIndices(entries) : h <= k}) = n

\* the normalized connections of a peer
ExpectedConnections(value) ==
    IF value[1] # "list" THEN <<>>
    ELSE [n \in 1..Cardinality(KeptIndices(value[2])) |->
             <<Coerced(value[2][NthKept(value[2], n)][2][1]),
               Coerced(value[2][NthKept(value[2], n)][2][2])>>]

\* C19: after validation, the connections of every peer are the pairs
\* [trimmed local interface, trimmed remote interface] of exactly the entries
\* that are lists of at least two elements with both first elements non-empty
\* once coerced and trimmed, in the order of the file, and are empty when the
\* file holds no list under connections.
C19_ConnectionsNormalized ==
    tp_validated =>
        \A k \in 1..Len(validated_devices) :
            \A j \in 1..Len(validated_devices[k][2].peers) :
                validated_devices[k][2].peers[j][2].connections
                    = ExpectedConnections(
                          RawEntry(RawPeerOf(validated_devices[k][1],
                                             validated_devices[k][2].peers[j][1]),
                                   "connections"))

\* a validated peer whose connections in the file were an entry of one
\* element followed by an entry of three elements with blanks around the names
C19_Witness ==
    /\ tp_validated
    /\ \E k \in 1..Len(validated_devices) :
          \E j \in 1..Len(validated_devices[k][2].peers) :
              /\ RawEntry(RawPeerOf(validated_devices[k][1],
                                    validated_devices[k][2].peers[j][1]),
                          "connections")
                     = JList(<<ConnectionEntries[1], ConnectionEntries[4]>>)
              /\ validated_devices[k][2].peers[j][2].connections
                     = << <<(<<"G", "i", "0", "/", "1">>),
                            (<<"G", "i", "0", "/", "2">>)>> >>

----------------------------------------------------------------------------
(* Claims about the signals and payloads of one import thread run *)

\* C28: in a run over N requests the thread's emissions are, for device
\* 1, 2, ... in turn, the progress signal carrying (name, index, N), then the
\* create-call, then that device's result signal; the aggregate signal is
\* emitted once, as the last emission of the finished run, and never before.
C28_SignalsInProgramOrder ==
    \A t \in DOMAIN threads :
        LET th == threads[t]
            N == Len(th.import_data)
            log == th.emitted
            last == Len(log)
            body == IF th.pc = "done" THEN last - 1 ELSE last
        IN /\ th.pc = "done" =>
                /\ last >= 1
                /\ log[last][1] = "import_complete"
                /\ body % 3 = 0
           /\ \A p \in 1..body :
                LET k == ((p - 1) \div 3) + 1
                IN /\ k <= N
                   /\ p % 3 = 1 =>
                        /\ log[p][1] = "import_progress"
                        /\ log[p][2] = <<th.import_data[k].name, k, N>>
                   /\ p % 3 = 2 => log[p][1] = "create_device"
                   /\ p % 3 = 0 =>
                        /\ log[p][1] = "device_created"
                        /\ log[p][2][1] = th.import_data[k].name
                        /\ log[p - 2][1] = "import_progress"

\* a finished run of three devices: nine emissions and the aggregate signal
C28_Witness ==
    \E t \in DOMAIN threads :
        /\ threads[t].pc = "done"
        /\ Len(threads[t].import_data) = 3
        /\ Len(threads[t].emitted) = 10
        /\ threads[t].emitted[10][1] = "import_complete"
        /\ threads[t].emitted[7] = <<"import_progress", <<3, 3, 3>> >>

\* the payloads of the create-calls a thread has begun, with their requests
PayloadsOf(t) ==
    {<<threads[t].import_data[k], threads[t].emitted[3 * k - 1][2]>> :
        k \in {h \in 1..Len(threads[t].import_data) :
                  3 * h - 1 <= Len(threads[t].emitted)
                     /\ threads[t].emitted[3 * h - 1][1] = "create_device"}}

\* C29: the payload of every create-call holds name, site, device_role and
\* device_type of its request and the status "active"; it holds a platform
\* exactly when the request carries a platform id, and then that id.
C29_PayloadFields ==
    \A t \in DOMAIN threads :
        \A pair \in PayloadsOf(t) :
            LET request == pair[1]
                payload == pair[2]
            IN /\ payload.name = request.name
               /\ payload.site = request.site_id
               /\ payload.device_role = request.role_id
               /\ payload.device_type = request.type_id
               /\ payload.status = "active"
               /\ ("platform" \in DOMAIN payload) = (request.platform_id # NoneId)
               /\ "platform" \in DOMAIN payload =>
                      payload.platform = request.platform_id
               /\ DOMAIN payload \subseteq {"name", "site", "device_role",
                                            "device_type", "status", "platform"}

\* a run that built one payload with a platform and one without
C29_Witness ==
    \E t \in DOMAIN threads :
        \E with, without \in PayloadsOf(t) :
            /\ "platform" \in DOMAIN with[2]
            /\ with[2].platform = 1
            /\ "platform" \notin DOMAIN without[2]

----------------------------------------------------------------------------
(* Claims about the batches of the chunked population *)

\* the positions of the progress signals of the current population
ProgressPositions ==
    {k \in 1..Len(tw_signals) : tw_signals[k].signal = "population_progress"}

\* the number of batches of 50 rows a list of T rows takes
BatchesOf(T) == (T + 49) \div 50

----------------------------------------------------------------------------
(* Claims about the fetch threads in flight *)

\* the NetBoxDataThread objects whose run has not returned
FetchThreadsInFlight ==
    {t \in DOMAIN fetch_threads : fetch_threads[t].pc # "done"}

\* C21: whatever the operator does, at most one NetBoxDataThread is in flight
\* at a time over the wrapper's cache.
C21_AtMostOneFetchThread == Cardinality(FetchThreadsInFlight) <= 1

----------------------------------------------------------------------------
(* Claims about the wizard's startup and its Connection & File tab *)

\* C22: "Load Topology" is enabled only after a connection test has
\* succeeded, and every handled successful load stores the loaded devices in
\* the discovery model and starts a fetch thread, the wrapper being there,
\* whatever successful and failed tests came before it.
C22_LoadStoresAndStartsFetch ==
    /\ [](load_file_btn => TRUE \in wz_results)
    /\ [][wz_loads' = wz_loads + 1 =>
            /\ discovered_devices' = topology_thread.signals[1].devices
            /\ nb_connected
            /\ nFetch' = nFetch + 1
            /\ nFetch' \in DOMAIN fetch_threads']_vars

SavedName ==
    IF text_strip(wz_form.connection_name_input) # ""
    THEN text_strip(wz_form.connection_name_input)
    ELSE AutoName(Len(cm_connections))

\* on_connection_result handles a successful test
SuccessfulTestHandled ==
    /\ ~connection_thread.handled
    /\ connection_thread'.handled
    /\ connection_thread.signals[1].success

\* C23: when a successful test is handled with the save toggle on, the
\* store unlocked and URL and token non-empty, the wrapper is instantiated
\* and the ConfigManager holds a connection under the entered name (or
\* NetBox-<count+1>) with the URL and verify flag, its token retrievable.
C23_SuccessfulTestSavesConnection ==
    [][(/\ SuccessfulTestHandled
        /\ wz_form.save_connection_checkbox
        /\ cm_unlocked
        /\ text_strip(wz_form.url_input) # ""
        /\ text_strip(wz_form.token_input) # "")
       => /\ nb_connected'
          /\ \E k \in 1..Len(cm_connections') :
                /\ cm_connections'[k].name = SavedName
                /\ cm_connections'[k].url = text_strip(wz_form.url_input)
                /\ cm_connections'[k].verify_ssl = wz_form.verify_ssl_checkbox
          /\ StoredToken(credentials_file', SavedName)
                = text_strip(wz_form.token_input)]_vars

\* the picker entries for a list of saved connections
PickerOf(conns) ==
    <<"-- New Connection --">> \o [k \in 1..Len(conns) |-> conns[k].name]

\* C24: at startup over an initialized store, a correct password makes
\* initialization succeed, the picker list every saved connection, the
\* window take the stored size and the file path field show the stored
\* path; after an incorrect password the application goes on running.
C24_StartupRestoresSavedState ==
    /\ [][(wz_phase = "created" /\ cm_unlocked') =>
            /\ wz_init_result' = <<TRUE>>
            /\ connection_combo' = PickerOf(cm_connections')
            /\ window_size' = <<cm_preferences'.window_width,
                                cm_preferences'.window_height>>
            /\ (cm_preferences'.last_file_path # ""
                  => file_path_input' = cm_preferences'.last_file_path)]_vars
    /\ [][(wz_phase = "created" /\ cm_ret' = <<FALSE>>) => wz_phase' = "running"]_vars

----------------------------------------------------------------------------
(* Claims about the terminal signals of the background threads *)

\* the emissions of a signal in a log of <<signal, arguments>> entries
EmissionsOf(log, signal) == SelectSeq(log, LAMBDA entry : entry[1] = signal)

LoadErrors ==
    {"load_error: Invalid JSON format", "load_error: Error loading topology file"}

\* C25: every run of each of the four background threads that has returned
\* has emitted exactly one terminal signal, and no run ends without one:
\* connection_result for the connection test, one of load_complete and
\* load_error for the topology load (load_error when the decoded JSON is no
\* object), one of data_ready and data_error for the data fetch,
\* import_complete for the device import; a run that has not returned has
\* emitted none.
C25_OneTerminalSignalPerRun ==
    /\ Len(connection_thread.signals) = (IF connection_thread.pc = "done" THEN 1 ELSE 0)
    /\ Len(tp_signals) = (IF tp_done THEN 1 ELSE 0)
    /\ tp_done => IF tp_file = "object" THEN tp_signals = <<"load_complete">>
                  ELSE tp_signals[1] \in LoadErrors
    /\ \A t \in DOMAIN fetch_threads :
          IF fetch_threads[t].pc = "done"
          THEN fetch_threads[t].signals \in {<<"data_ready">>, <<"data_error">>}
          ELSE fetch_threads[t].signals = <<>>
    /\ \A t \in DOMAIN threads :
          /\ Len(EmissionsOf(threads[t].emitted, "import_complete"))
                = (IF threads[t].pc = "done" THEN 1 ELSE 0)
          /\ EmissionsOf(threads[t].emitted, "import_error") = <<>>

\* a file holding a JSON list was loaded and the run ended in load_error
C25_Witness ==
    /\ tp_done
    /\ tp_file = "list"
    /\ tp_signals = <<"load_error: Error loading topology file">>

----------------------------------------------------------------------------
(* Claims about the CSV report *)

\* the rows of the report a successful call wrote
ReportRows == rp_file[1]

\* the results whose success flag is true
FlaggedResults == {k \in 1..Len(import_results) :
                      /\ "success" \in DOMAIN import_results[k]
                      /\ import_results[k].success}

\* the rate cell as tenths of a percent
RateTenths == 10 * ReportRows[9][2][1] + ReportRows[9][2][2]

\* the distance of the rate cell from successful/total, in units of 1/total
\* of a tenth of a percent
RateError ==
    IF RateTenths * Len(import_results) >= 1000 * Cardinality(FlaggedResults)
    THEN RateTenths * Len(import_results) - 1000 * Cardinality(FlaggedResults)
    ELSE 1000 * Cardinality(FlaggedResults) - RateTenths * Len(import_results)

\* C26: a written report's summary shows total = number of results,
\* successful = number of results whose success flag is true, failed = total
\* - successful and Success Rate = successful/total in percent rounded to
\* one decimal (66.7% for 2 of 3); the detail section has one row per
\* result, in result order, with Status SUCCESS exactly for the results
\* whose flag is true and FAILED for the others.
C26_ReportSummaryAndRows ==
    rp_ret = <<TRUE>> =>
       /\ ReportRows[6] = <<"Total Devices Processed:", Len(import_results)>>
       /\ ReportRows[7] = <<"Successfully Created:", Cardinality(FlaggedResults)>>
       /\ ReportRows[8] = <<"Failed to Create:",
                            Len(import_results) - Cardinality(FlaggedResults)>>
       /\ ReportRows[9][1] = "Success Rate:"
       /\ ReportRows[9][2][2] \in 0..9
       /\ ReportRows[9][2][3] = "%"
       /\ 2 * RateError <= Len(import_results)
       /\ (Len(import_results) = 3 /\ Cardinality(FlaggedResults) = 2
             => ReportRows[9][2] = <<66, 7, "%">>)
       /\ Len(ReportRows) = 11 + Len(import_results)
       /\ \A k \in 1..Len(import_results) :
             /\ ReportRows[11 + k][2] = (IF k \in FlaggedResults THEN "SUCCESS"
                                         ELSE "FAILED")
             /\ ReportRows[11 + k][1] =
                   (IF "name" \in DOMAIN import_results[k]
                    THEN import_results[k].name ELSE "")
             /\ ReportRows[11 + k][10] = ""

\* a report over two created devices and one refused was written
C26_Witness ==
    /\ rp_ret = <<TRUE>>
    /\ Len(import_results) = 3
    /\ Cardinality(FlaggedResults) = 2
    /\ ReportRows[9][2] = <<66, 7, "%">>
    /\ ReportRows[13][2] = "FAILED"

----------------------------------------------------------------------------
(* Claims about the CSV export of the device table *)

\* C27: an export of a table with zero rows, and one whose save dialog is
\* cancelled (no box is shown), writes no file and returns False; an export
\* that returns True has written the header row and exactly one row per
\* table row; an I/O failure is reported in a box and returned as False,
\* and every call returns.
C27_ExportWritesOneRowPerTableRow ==
    [][ex_ret' # ex_ret =>
         /\ ex_ret' \in {<<TRUE>>, <<FALSE>>}
         /\ row_count = 0 => (ex_file' = <<>> /\ ex_ret' = <<FALSE>>)
         /\ (ex_ret' = <<FALSE>> /\ ex_message' = "") => ex_file' = <<>>
         /\ (ex_ret' = <<FALSE>> /\ row_count > 0)
               => ex_message' \in {"", "Export Error"}
         /\ ex_ret' = <<TRUE>> =>
               /\ ex_file' # <<>>
               /\ Len(ex_file'[1]) = 1 + row_count
               /\ ex_file'[1][1] = export_headers
               /\ \A k \in 1..row_count : Len(ex_file'[1][1 + k]) = 9
               /\ \A k \in 1..row_count :
                     (k - 1) \in DOMAIN tw_rows
                        => ex_file'[1][1 + k][2] = tw_rows[k - 1].name]_vars

\* a table of two or more rows, the first checked and the last without a
\* platform selected, was exported
C27_Witness ==
    /\ ex_ret = <<TRUE>>
    /\ row_count >= 2
    /\ Len(ex_file[1]) = 1 + row_count
    /\ ex_file[1][2][1] = "Yes"
    /\ ex_file[1][1 + row_count][5] = <<"-- Not Selected --">>

----------------------------------------------------------------------------
(* Claims about the flattened device list of the table *)

\* the names of the top-level devices and of the peers of the last populate
\* call
TopLevelNames == {tw_devices[d].name : d \in 1..Len(tw_devices)}

PeerNames ==
    UNION {{tw_devices[d].peers[j].name : j \in 1..Len(tw_devices[d].peers)} :
              d \in 1..Len(tw_devices)}

\* the first device, in iteration order, that has a peer of that name, and
\* the first such peer under it
FirstDeviceWithPeer(name) ==
    CHOOSE d \in 1..Len(tw_devices) :
       /\ \E j \in 1..Len(tw_devices[d].peers) : tw_devices[d].peers[j].name = name
       /\ \A c \in 1..(d - 1) :
             \A j \in 1..Len(tw_devices[c].peers) : tw_devices[c].peers[j].name # name

FirstOccurrence(name) ==
    LET peers == tw_devices[FirstDeviceWithPeer(name)].peers
    IN peers[CHOOSE j \in 1..Len(peers) :
                /\ peers[j].name = name
                /\ \A i \in 1..(j - 1) : peers[i].name # name]

\* C31: the flattened list holds each name at most once; its names are the
\* top-level names together with the peer names that are no top-level name;
\* the row of a peer-only name has the IP and platform of the first
\* occurrence of that peer in iteration order; the table has as many rows as
\* the list has entries.
C31_FlattenedListIsDeduplicated ==
    tw_populates > 0 =>
       /\ \A i, j \in 1..Len(devices_to_populate) :
             i # j => devices_to_populate[i].name # devices_to_populate[j].name
       /\ {devices_to_populate[k].name : k \in 1..Len(devices_to_populate)}
             = TopLevelNames \cup (PeerNames \ TopLevelNames)
       /\ \A k \in 1..Len(devices_to_populate) :
             devices_to_populate[k].name \in PeerNames \ TopLevelNames
                => /\ devices_to_populate[k].ip
                         = strip(FirstOccurrence(devices_to_populate[k].name).ip)
                   /\ devices_to_populate[k].platform
                         = strip(FirstOccurrence(devices_to_populate[k].name).platform)
       /\ row_count = Len(devices_to_populate)

\* a table was populated from two devices that share a peer with differing
\* details, which has one row
C31_Witness ==
    /\ tw_populates > 0
    /\ Len(tw_devices) = 2
    /\ \A d \in 1..2 : Len(tw_devices[d].peers) = 1 /\ tw_devices[d].peers[1].name = 3
    /\ tw_devices[1].peers[1].ip # tw_devices[2].peers[1].ip
    /\ row_count = 3

----------------------------------------------------------------------------
(* Claims about the names the matcher evaluates *)

\* the names that appear as table rows: every top-level device and every
\* peer that is no top-level device
RowNames ==
    DOMAIN discovered_devices
       \cup (UNION {discovered_devices[d].peers : d \in DOMAIN discovered_devices}
                \ DOMAIN discovered_devices)

\* the inventory devices that match a name
MatchingInventory(c) == {k \in 1..Len(existing_inventory) : NameBasis(c, k)}

----------------------------------------------------------------------------
(* Claims about the progress of the topology load thread *)

\* the percentages of the progress updates of the run, in order of emission
ProgressValues ==
    LET updates == SelectSeq(tp_emitted, LAMBDA e : e[1] = "progress_update")
    IN [k \in 1..Len(updates) |-> updates[k][2]]

\* the positions of a signal in the log of the run
PositionsOf(signal) == {k \in 1..Len(tp_emitted) : tp_emitted[k][1] = signal}

\* C33: the progress percentages of a run lie in 10..100 and never
\* decrease: 10, then 30, then 30 + floor(40 * k / n) for the k-th of the n
\* top-level entries (within 30..70), and 100 is emitted before
\* load_complete; a failed run emits no load_complete and no 100.
C33_ProgressOfTopologyLoad ==
    tp_done =>
       /\ \A k \in 1..Len(ProgressValues) : ProgressValues[k] \in 10..100
       /\ \A k \in 1..(Len(ProgressValues) - 1) :
             ProgressValues[k] <= ProgressValues[k + 1]
       /\ ProgressValues[1] = 10
       /\ IF tp_signals = <<"load_complete">>
          THEN /\ ProgressValues[2] = 30
               /\ Len(ProgressValues) >= Len(raw_data) + 3
               /\ \A k \in 1..Len(raw_data) :
                     /\ ProgressValues[2 + k] = 30 + (40 * k) \div Len(raw_data)
                     /\ ProgressValues[2 + k] \in 30..70
               /\ ProgressValues[Len(ProgressValues)] = 100
               /\ \A p \in PositionsOf("progress_update"), c \in PositionsOf("load_complete") :
                     p < c
               /\ Cardinality(PositionsOf("load_complete")) = 1
          ELSE /\ PositionsOf("load_complete") = {}
               /\ \A k \in 1..Len(ProgressValues) : ProgressValues[k] # 100

\* a file of three entries was loaded: 43, 56 and 70 were reported
C33_Witness ==
    /\ tp_done
    /\ tp_signals = <<"load_complete">>
    /\ Len(raw_data) = 3
    /\ ProgressValues = <<10, 30, 43, 56, 70, 70, 100>>

----------------------------------------------------------------------------
(* Claims about failed topology loads *)

\* the one signal of the topology thread's finished run
LoadSignal == topology_thread.signals[1]

\* on_topology_error handles the signal of a failed load
FailedLoadHandled ==
    /\ ~topology_thread.handled
    /\ topology_thread'.handled
    /\ LoadSignal.signal # "load_complete"

\* what the handlers do on a failed load: the discovered topology stays, no
\* fetch thread is started, Load Topology is enabled again
FailedLoadLeavesTopology ==
    [][FailedLoadHandled =>
         /\ discovered_devices' = discovered_devices
         /\ nFetch' = nFetch
         /\ fetch_threads' = fetch_threads
         /\ load_file_btn']_vars

\* the loads that end with the message for invalid JSON
EndsWithInvalidJson(files) ==
    topology_thread.pc = "done" =>
       /\ Len(topology_thread.signals) = 1
       /\ LoadSignal.file \in files
             => LoadSignal.signal = "load_error: Invalid JSON format"
       /\ (LoadSignal.file \notin files /\ LoadSignal.file # "object")
             => LoadSignal.signal = "load_error: Error loading topology file"

\* C34 as stated, its sentence on the messages: a file that is not valid
\* JSON, be it text that does not parse or bytes that are no text, ends the
\* load with the "Invalid JSON format" error and every other failure with
\* the generic one.
C34_InvalidJsonHasItsOwnError ==
    EndsWithInvalidJson({"malformed", "undecodable"})

\* C34: a file whose text does not parse as JSON ends the load with the
\* "Invalid JSON format" error; every other failure, a file that cannot be
\* opened or decoded as text included, ends it with the generic error; a
\* failed load leaves the discovered topology, starts no fetch and
\* re-enables Load Topology.
C34_JsonDecodeFailureHasItsOwnError ==
    /\ [](EndsWithInvalidJson({"malformed"}))
    /\ FailedLoadLeavesTopology

\* a second load, of text that is no JSON, failed after a first had stored a
\* device; the device is still there and the button enabled
C34_Witness ==
    /\ wz_loads = 1
    /\ discovered_devices # <<>>
    /\ topology_thread.pc = "done"
    /\ topology_thread.handled
    /\ LoadSignal.file = "malformed"
    /\ LoadSignal.signal = "load_error: Invalid JSON format"
    /\ load_file_btn

----------------------------------------------------------------------------
(* Claims about the bulk defaults *)

\* a picker as the defaults must leave it: on the entry of the default id if
\* the row is checked and the picker has such an entry, unchanged otherwise
ExpectedPicker(row, current, id) ==
    IF row.checked /\ id # NoneId /\ id \in PickerIds THEN id ELSE current

\* C35: apply-defaults-to-selected, applied to any reachable table with any
\* defaults, leaves unchecked rows as they are, leaves a picker whose
\* default is absent or is the id of none of its entries as it is, never
\* changes the device-type picker or the checkbox, and sets the site, role
\* and platform pickers of the checked rows to the defaults that are given.
C35_DefaultsChangeOnlyCheckedRows ==
    \A site_id, role_id, platform_id \in DefaultIds :
       \A r \in 1..Len(table) :
          LET row == table[r]
              new == DefaultsApplied(row, site_id, role_id, platform_id)
          IN /\ ~row.checked => new = row
             /\ new.checked = row.checked
             /\ new.type = row.type
             /\ new.site = ExpectedPicker(row, row.site, site_id)
             /\ new.role = ExpectedPicker(row, row.role, role_id)
             /\ new.platform = ExpectedPicker(row, row.platform, platform_id)

\* the defaults were applied as the one edit of a table: a checked row has
\* the default site and role, an unchecked row has neither
C35_Witness ==
    /\ nEdits = 1
    /\ \E r \in 1..Len(table) :
          table[r].checked /\ table[r].site = 1 /\ table[r].role = 1
    /\ \E r \in 1..Len(table) :
          ~table[r].checked /\ table[r].site = NoneId /\ table[r].role = NoneId

----------------------------------------------------------------------------
(* Claims about the buttons of the Import tab during a run *)

\* the current import run was started, was not cancelled, and its
\* import_complete signal has not been handled yet
RunInProgress ==
    /\ import_thread \in DOMAIN threads
    /\ ~threads[import_thread].interrupted

\* C36: from the start of an import run until its import_complete signal is
\* handled, whatever the operator does other than Cancel Import, Start
\* Import is disabled and Cancel Import is enabled.
C36_ButtonsDuringRun ==
    RunInProgress => ~import_btn /\ cancel_import_btn

----------------------------------------------------------------------------
(* Claims about the repopulation of the table *)

\* the row is as _populate_device_row builds it from the device list of the
\* last population call: no site, role or device type, the checkbox by the
\* auto-select rule and the platform by the auto-matching
FreshRow(row) ==
    /\ row < Len(devices_to_populate)
    /\ tw_rows[row].site_combo = NoneId
    /\ tw_rows[row].role_combo = NoneId
    /\ tw_rows[row].type_combo = NoneId
    /\ tw_rows[row].import_checkbox = should_auto_select(devices_to_populate[row + 1])
    /\ LET platforms == netbox_data_cache
           matched == find_matching_platform(devices_to_populate[row + 1].platform,
                                             platforms)
       IN tw_rows[row].platform_combo =
             IF matched # 0 THEN platforms[matched].id ELSE NoneId

\* the population the last call started has completed
PopulationCompleted ==
    /\ tw_signals # <<>>
    /\ tw_signals[Len(tw_signals)].signal = "population_complete"

\* C37: a population call discards every row the table held: every row the
\* operator has not changed since the call is as the population builds it,
\* whatever was edited, picked or set by bulk defaults before the call, and
\* when the population has completed the table holds a row for every device
\* of the call.
C37_RepopulationDiscardsRows ==
    /\ \A row \in (DOMAIN tw_rows) \ tw_edited : FreshRow(row)
    /\ PopulationCompleted => DOMAIN tw_rows = 0..(Len(devices_to_populate) - 1)

\* a second population has completed over a table whose rows the operator
\* had edited before it, and no row was changed since
C37_Witness ==
    /\ tw_populates = 2
    /\ PopulationCompleted
    /\ nPicks = MaxPicks
    /\ tw_edited = {}
    /\ DOMAIN tw_rows # {}

----------------------------------------------------------------------------
(* Claims about the names of saved connections *)

\* C38: in every state a sequence of saves and deletions leads to, the name
\* a save with a blank name field would generate is the name of no saved
\* connection, so that save adds a connection and overwrites none.
C38_AutoNameIsUnused ==
    \A k \in 1..Len(cm_connections) :
        cm_connections[k].name # AutoName(Len(cm_connections))

----------------------------------------------------------------------------
(* Claims about the backend of the ids an import sends *)

\* C39: the ids an import thread sends in its create-calls were fetched
\* through the wrapper the thread creates the devices with: whatever tests,
\* loads and fetches came before, the ids of one backend are never sent to
\* another.
C39_IdsAreOfTheImportBackend ==
    \A import \in bk_import_threads :
        import.netbox_api # None => import.ids = import.netbox_api

====
